---- MODULE Spec2Model ----
(***************************************************************************)
(* fnmock: function-level test doubles (mock, fake, stub).                 *)
(*                                                                         *)
(* The derive crates generate, for every annotated function, a module of   *)
(* proxy functions around one thread_local RefCell holding the double, and *)
(* a function that dispatches to the double.  The model has one such       *)
(* thread-local cell per thread and double, the proxies as operators on a  *)
(* cell, and one action per proxy or generated function.                   *)
(*                                                                         *)
(* A panic (NotConfigured, AssertionFailure) is an outcome of the          *)
(* operation: the RefCell borrow is released while unwinding, what the     *)
(* operation wrote before panicking stays written, and a thread that       *)
(* catches the panic goes on using the double.                             *)
(***************************************************************************)
EXTENDS Integers, Sequences, FiniteSets, TLC

(***************************************************************************)
(* Bounds and input domains.                                               *)
(***************************************************************************)
\* Longest call log the model lets a mock record.
MaxCalls == 2
\* The same where two threads and two mocked functions are at work.
IsoCalls == 1

\* Execution contexts (threads); TestThreads are the ones Spec schedules.
Threads == {"t1", "t2"}
TestThreads == {"t1"}

\* Mocked functions; SpecFns are the ones Spec exercises.  fetch_user_db is
\* fetch_user(db, id) mocked with ignore = [db].
MockFns == {"fetch_user", "send_email", "fetch_user_db"}
SpecFns == {"fetch_user"}

\* Positions of the parameters a mock_function attribute lists in ignore.
IgnoreOf(fn) == IF fn = "fetch_user_db" THEN {1} ELSE {}

\* Arguments a test passes to a mocked function / to assert_with (whose
\* inputs are the parameters that are not ignored).
ArgsOf(fn) ==
    CASE fn = "fetch_user" -> {<<7>>, <<42>>}
      [] fn = "send_email" -> {<<7, 7>>, <<42, 7>>}
      [] fn = "fetch_user_db" -> {<<100, 7>>, <<200, 7>>, <<200, 42>>}
AssertArgsOf(fn) ==
    CASE fn = "fetch_user" -> {<<7>>, <<42>>, <<99>>}
      [] fn = "send_email" -> {<<7, 7>>, <<42, 7>>, <<99, 7>>}
      [] fn = "fetch_user_db" -> {<<7>>, <<42>>, <<99>>}

\* Closures a test hands to a mock's setup.
MockImpls == {"user_of_id", "mock_error"}
\* The same for the mock with an ignore list: debug_params is
\* |p| Ok(format!("{:?}", p)), whose result shows the tuple it was given.
IgnoreImpls == {"debug_params", "mock_error"}
\* Closures a test hands to a fake's setup.
FakeImpls == {"const_8", "plus_10"}
\* Arguments of the faked function add_two.
FakeArgs == {2, 5}
\* Values a test hands to a stub's setup.
StubVals == {"test_config", "other_config"}
\* The two local variables in which a test keeps duplicates it got from a stub.
Slots == {1, 2}

(***************************************************************************)
(* Values.                                                                 *)
(***************************************************************************)
None == [some |-> FALSE]
Some(x) == [some |-> TRUE, v |-> x]

\* Values of the types that cross the doubles' interfaces, each tagged with
\* its type by the name of its one field.
VBool(b) == [b |-> b]
VInt(i) == [i |-> i]
VStr(s) == [s |-> s]
VTup(p) == [p |-> p]
VFn(f) == [f |-> f]
VLog(calls) == [log |-> calls]
Unit == [unit |-> TRUE]

\* Result<String, String>
ResOk(s) == [ok |-> TRUE, s |-> s]
ResErr(s) == [ok |-> FALSE, s |-> s]

\* How an operation ends: it returns, or it panics with one of two kinds.
Return(v) == [kind |-> "Return", val |-> v]
NotConfigured(name) == [kind |-> "NotConfigured", name |-> name]
AssertionFailure(name, expected, actual) ==
    [kind |-> "AssertionFailure", name |-> name,
     expected |-> expected, actual |-> actual]

\* A tuple of numbers as text: "200,42".
RECURSIVE TupleStr(_)
TupleStr(p) ==
    IF Len(p) = 0 THEN ""
    ELSE IF Len(p) = 1 THEN ToString(p[1])
    ELSE ToString(p[1]) \o "," \o TupleStr(Tail(p))

\* The closures of the tests and examples, applied.
ApplyMock(f, params) ==
    CASE f = "user_of_id" -> ResOk("user_" \o ToString(params[1]))
      [] f = "debug_params" -> ResOk(TupleStr(params))
      [] OTHER -> ResErr("Mock Error")

ApplyFake(f, x) ==
    IF f = "const_8" THEN 8 ELSE x + 10

\* The original bodies of the annotated functions.
OriginalMocked(fn, args) ==
    CASE fn = "fetch_user" -> ResOk("User_" \o ToString(args[1]))
      [] fn = "fetch_user_db" -> ResOk("user_" \o ToString(args[2]))
      [] OTHER -> ResOk("()")

add_two(x) == x + 2

get_config == "production_config"

\* What a test does to a duplicate it owns (String::push_str and the like).
Mutate(s) == "changed"

(***************************************************************************)
(* Names of the generated modules, which the doubles carry.                *)
(***************************************************************************)
mock_mod_name(fn) == fn \o "_mock"
fake_mod_name == "add_two_fake"
stub_fn_name == "get_config_stub"

(***************************************************************************)
(* The runtime: FunctionMock<Params, Return>.  An operation yields the     *)
(* object as it leaves it (self) and how it ended (out).                   *)
(***************************************************************************)
FunctionMock_new(name) == [name |-> name, f |-> None, calls |-> <<>>]

FunctionMock_setup(m, new_f) ==
    [self |-> [m EXCEPT !.f = Some(new_f)], out |-> Return(Unit)]

FunctionMock_clear(m) ==
    [self |-> [m EXCEPT !.f = None, !.calls = <<>>], out |-> Return(Unit)]

FunctionMock_is_set(m) == [self |-> m, out |-> Return(VBool(m.f.some))]

\* The parameters are logged first; then the implementation runs, or the
\* call panics.
FunctionMock_call(m, params) ==
    LET logged == [m EXCEPT !.calls = Append(@, params)]
    IN  [self |-> logged,
         out  |-> IF m.f.some THEN Return(ApplyMock(m.f.v, params))
                  ELSE NotConfigured(m.name)]

FunctionMock_assert_times(m, expected) ==
    [self |-> m,
     out  |-> IF Len(m.calls) = expected THEN Return(Unit)
              ELSE AssertionFailure(m.name, VInt(expected), VInt(Len(m.calls)))]

FunctionMock_assert_with(m, params) ==
    [self |-> m,
     out  |-> IF \E i \in 1..Len(m.calls) : m.calls[i] = params
              THEN Return(Unit)
              ELSE AssertionFailure(m.name, VTup(params), VLog(m.calls))]

(***************************************************************************)
(* The runtime: FunctionFake<Function>.                                    *)
(***************************************************************************)
FunctionFake_new(name) == [name |-> name, f |-> None]

FunctionFake_setup(k, new_f) ==
    [self |-> [k EXCEPT !.f = Some(new_f)], out |-> Return(Unit)]

FunctionFake_clear(k) ==
    [self |-> [k EXCEPT !.f = None], out |-> Return(Unit)]

FunctionFake_is_set(k) == [self |-> k, out |-> Return(VBool(k.f.some))]

FunctionFake_get_implementation(k) ==
    [self |-> k,
     out  |-> IF k.f.some THEN Return(VFn(k.f.v)) ELSE NotConfigured(k.name)]

(***************************************************************************)
(* The runtime: FunctionStub<Return>.                                      *)
(***************************************************************************)
FunctionStub_new(name) == [name |-> name, value |-> None]

FunctionStub_setup(s, return_value) ==
    [self |-> [s EXCEPT !.value = Some(return_value)], out |-> Return(Unit)]

FunctionStub_clear(s) ==
    [self |-> [s EXCEPT !.value = None], out |-> Return(Unit)]

FunctionStub_is_set(s) == [self |-> s, out |-> Return(VBool(s.value.some))]

\* The stored value is cloned, never moved out.
FunctionStub_get_return_value(s) ==
    [self |-> s,
     out  |-> IF s.value.some THEN Return(VStr(s.value.v))
              ELSE NotConfigured(s.name)]

(***************************************************************************)
(* State.                                                                  *)
(***************************************************************************)
VARIABLES
    test_build, \* cfg(test): whether this is a test build
    mock,       \* mock[t][fn]: the thread_local MOCK of fn's mock module
    fake,       \* fake[t]: the thread_local FAKE of add_two_fake
    stub,       \* stub[t]: the thread_local STUB of get_config_stub
    held,       \* held[t][slot]: duplicates the test got from the stub
    pc,         \* pc[t]: how far the test case running in thread t has got
    expanded,   \* the macro invocation expanded last, and what it produced
    running,    \* running[t]: the generated function thread t is inside of
    fn_calls,   \* fn_calls[t][fn]: the calls of fn since the mock's last
                \* clear(), made with (set) and without (unset) an
                \* implementation configured
    ret         \* the operation performed last, and how it ended

vars == <<test_build, mock, fake, stub, held, pc, expanded, running, fn_calls,
          ret>>

\* What an operation of a test on a double leaves alone.
apart == <<expanded, running, fn_calls>>

(***************************************************************************)
(* The generated modules.  A thread_local is built by its initialiser on   *)
(* the thread's first access (cell None until then); a proxy borrows the   *)
(* RefCell, runs one method and yields the cell and the method's outcome.  *)
(***************************************************************************)
Borrowed(r) == [cell |-> Some(r.self), out |-> r.out]

\* ---- <fn>_mock ----
MOCK_with(cell, fn) ==
    IF cell.some THEN cell.v ELSE FunctionMock_new(mock_mod_name(fn))

\* Mutant: call runs on a copy of the mock; what it logs is dropped.
mock_call_OnCopy(cell, fn, params) ==
    [cell |-> Some(MOCK_with(cell, fn)),
     out  |-> FunctionMock_call(MOCK_with(cell, fn), params).out]

\* Mutant: call looks for the implementation before it logs.
mock_call_CheckFirst(cell, fn, params) ==
    IF MOCK_with(cell, fn).f.some
    THEN Borrowed(FunctionMock_call(MOCK_with(cell, fn), params))
    ELSE [cell |-> Some(MOCK_with(cell, fn)),
          out  |-> NotConfigured(MOCK_with(cell, fn).name)]

mock_call(cell, fn, params) ==
    Borrowed(FunctionMock_call(MOCK_with(cell, fn), params))

\* Mutant: setup configures a copy of the mock, and the copy is dropped.
mock_setup_OnCopy(cell, fn, new_f) ==
    [cell |-> Some(MOCK_with(cell, fn)),
     out  |-> FunctionMock_setup(MOCK_with(cell, fn), new_f).out]

\* Mutant: setup starts the mock afresh, with an empty call log.
mock_setup_Resets(cell, fn, new_f) ==
    Borrowed(FunctionMock_setup(FunctionMock_new(mock_mod_name(fn)), new_f))

mock_setup(cell, fn, new_f) ==
    Borrowed(FunctionMock_setup(MOCK_with(cell, fn), new_f))

\* Mutant: clear drops the implementation and keeps the call log.
mock_clear_KeepsLog(cell, fn) ==
    [cell |-> Some([MOCK_with(cell, fn) EXCEPT !.f = None]),
     out  |-> Return(Unit)]

mock_clear(cell, fn) ==
    Borrowed(FunctionMock_clear(MOCK_with(cell, fn)))

\* Mutant: is_set() answers whether the thread has touched MOCK.
mock_is_set_Touched(cell, fn) ==
    [cell |-> Some(MOCK_with(cell, fn)), out |-> Return(VBool(cell.some))]

mock_is_set(cell, fn) ==
    Borrowed(FunctionMock_is_set(MOCK_with(cell, fn)))

\* Mutant: a check that succeeds starts the count again.
mock_assert_times_Consumes(cell, fn, expected_num_of_calls) ==
    LET r == FunctionMock_assert_times(MOCK_with(cell, fn),
                                       expected_num_of_calls)
    IN  [cell |-> Some(IF r.out.kind = "Return"
                       THEN [r.self EXCEPT !.calls = <<>>] ELSE r.self),
         out  |-> r.out]

mock_assert_times(cell, fn, expected_num_of_calls) ==
    Borrowed(FunctionMock_assert_times(MOCK_with(cell, fn),
                                       expected_num_of_calls))

\* Mutant: assert_with looks at the last logged call only.
mock_assert_with_LastOnly(cell, fn, params) ==
    LET m == MOCK_with(cell, fn)
    IN  [cell |-> Some(m),
         out  |-> IF Len(m.calls) > 0 /\ m.calls[Len(m.calls)] = params
                  THEN Return(Unit)
                  ELSE AssertionFailure(m.name, VTup(params), VLog(m.calls))]

\* Mutant: assert_with on a mock without an implementation is reported as
\* a dispatch on it would be.
mock_assert_with_NeedsSetup(cell, fn, params) ==
    LET m == MOCK_with(cell, fn)
    IN  IF m.f.some THEN Borrowed(FunctionMock_assert_with(m, params))
        ELSE [cell |-> Some(m), out |-> NotConfigured(m.name)]

mock_assert_with(cell, fn, params) ==
    Borrowed(FunctionMock_assert_with(MOCK_with(cell, fn), params))

\* The parameters that are not ignored, in order, from position i on.
RECURSIVE filter_params(_, _, _)
filter_params(args, ignore_indices, i) ==
    IF i > Len(args) THEN <<>>
    ELSE (IF i \in ignore_indices THEN <<>> ELSE <<args[i]>>)
         \o filter_params(args, ignore_indices, i + 1)

\* Mutant: the tuple is built from all parameters, ignored or not.
params_to_tuple_All(fn, args) == args

\* The tuple handed to call and to assert_with: the names of the parameters
\* that are not ignored, in order (a single parameter is kept as a 1-tuple
\* here).
params_to_tuple(fn, args) == filter_params(args, IgnoreOf(fn), 1)

\* The values of a mock's Params type a test can pass.
ParamsOf(fn) == {params_to_tuple(fn, args) : args \in ArgsOf(fn)}

\* Mutant: the generated function never looks at the mock.
mocked_function_NoCheck(tb, cell, fn, args) ==
    [cell |-> cell, out |-> Return(OriginalMocked(fn, args))]

\* Mutant: in a test build the generated function calls the mock without
\* asking is_set() first.
mocked_function_Unchecked(tb, cell, fn, args) ==
    IF tb THEN mock_call(cell, fn, params_to_tuple(fn, args))
    ELSE [cell |-> cell, out |-> Return(OriginalMocked(fn, args))]

\* The annotated function itself, as generated.
mocked_function(tb, cell, fn, args) ==
    IF tb
    THEN LET chk == mock_is_set(cell, fn)
         IN  IF chk.out.val.b
             THEN mock_call(chk.cell, fn, params_to_tuple(fn, args))
             ELSE [cell |-> chk.cell, out |-> Return(OriginalMocked(fn, args))]
    ELSE [cell |-> cell, out |-> Return(OriginalMocked(fn, args))]

\* ---- add_two_fake ----
FAKE_with(cell) ==
    IF cell.some THEN cell.v ELSE FunctionFake_new(fake_mod_name)

fake_setup(cell, new_f) == Borrowed(FunctionFake_setup(FAKE_with(cell), new_f))

fake_clear(cell) == Borrowed(FunctionFake_clear(FAKE_with(cell)))

fake_is_set(cell) == Borrowed(FunctionFake_is_set(FAKE_with(cell)))

\* Mutant: get_implementation moves the implementation out of the fake.
fake_get_implementation_Take(cell) ==
    [cell |-> Some([FAKE_with(cell) EXCEPT !.f = None]),
     out  |-> FunctionFake_get_implementation(FAKE_with(cell)).out]

fake_get_implementation(cell) ==
    Borrowed(FunctionFake_get_implementation(FAKE_with(cell)))

\* The annotated function, as generated by fake_function.
faked_function(tb, cell, x) ==
    IF tb
    THEN LET chk == fake_is_set(cell)
         IN  IF chk.out.val.b
             THEN LET g == fake_get_implementation(chk.cell)
                  IN  [cell |-> g.cell,
                       out  |-> IF g.out.kind = "Return"
                                THEN Return(VInt(ApplyFake(g.out.val.f, x)))
                                ELSE g.out]
             ELSE [cell |-> chk.cell, out |-> Return(VInt(add_two(x)))]
    ELSE [cell |-> cell, out |-> Return(VInt(add_two(x)))]

\* add_two_fake(x) of the example project: dispatch without a check.
add_two_fake(cell, x) ==
    LET g == fake_get_implementation(cell)
    IN  [cell |-> g.cell,
         out  |-> IF g.out.kind = "Return"
                  THEN Return(VInt(ApplyFake(g.out.val.f, x)))
                  ELSE g.out]

\* calc(x) of the example project: add_two(x) + add_two(x), where add_two
\* is add_two_fake in a test build; a panic of the first call ends calc.
calc(tb, cell, x) ==
    IF tb
    THEN LET a == add_two_fake(cell, x)
             b == add_two_fake(a.cell, x)
         IN  IF a.out.kind # "Return" THEN a
             ELSE IF b.out.kind # "Return" THEN b
             ELSE [cell |-> b.cell, out |-> Return(VInt(a.out.val.i + b.out.val.i))]
    ELSE [cell |-> cell, out |-> Return(VInt(add_two(x) + add_two(x)))]

\* ---- get_config_stub ----
\* The functions the generated stub module has.
StubProxies == {"setup", "clear", "get_return_value"}

STUB_with(cell) ==
    IF cell.some THEN cell.v ELSE FunctionStub_new(stub_fn_name)

\* Mutant: setup keeps a value that is already there.
stub_setup_KeepFirst(cell, return_value) ==
    IF STUB_with(cell).value.some
    THEN [cell |-> Some(STUB_with(cell)), out |-> Return(Unit)]
    ELSE Borrowed(FunctionStub_setup(STUB_with(cell), return_value))

stub_setup(cell, return_value) ==
    Borrowed(FunctionStub_setup(STUB_with(cell), return_value))

stub_clear(cell) == Borrowed(FunctionStub_clear(STUB_with(cell)))

\* Mutant: get_return_value moves the value out of the stub.
stub_get_return_value_Take(cell) ==
    [cell |-> Some([STUB_with(cell) EXCEPT !.value = None]),
     out  |-> FunctionStub_get_return_value(STUB_with(cell)).out]

stub_get_return_value(cell) ==
    Borrowed(FunctionStub_get_return_value(STUB_with(cell)))

\* get_config_stub(), as generated by stub_function.
stub_function(cell) == stub_get_return_value(cell)

\* process_config() of the example project: get_config(), which is
\* get_config_stub in a test build.
process_config(tb, cell) ==
    IF tb THEN stub_function(cell)
    ELSE [cell |-> cell, out |-> Return(VStr(get_config))]

(***************************************************************************)
(* Initial state: nothing has touched a thread_local yet.                  *)
(***************************************************************************)
Init ==
    /\ test_build \in BOOLEAN
    /\ mock = [t \in Threads |-> [fn \in MockFns |-> None]]
    /\ fake = [t \in Threads |-> None]
    /\ stub = [t \in Threads |-> None]
    /\ held = [t \in Threads |-> [i \in Slots |-> None]]
    /\ pc = [t \in Threads |-> "start"]
    /\ expanded = [macro |-> "none", input |-> Unit, out |-> Unit]
    /\ running = [t \in Threads |-> None]
    /\ fn_calls = [t \in Threads |-> [fn \in MockFns |->
                      [set |-> 0, unset |-> 0, cleared |-> FALSE]]]
    /\ ret = [t |-> "none", dbl |-> "none", op |-> "init", fn |-> "none",
              arg |-> Unit, out |-> Return(Unit)]

Did(t, dbl, op, fn, arg, out) ==
    ret' = [t |-> t, dbl |-> dbl, op |-> op, fn |-> fn, arg |-> arg,
            out |-> out]

CallsOf(t, fn) == MOCK_with(mock[t][fn], fn).calls

(***************************************************************************)
(* Mock: what a test thread can do with <fn>_mock and with fn.             *)
(***************************************************************************)
\* Mutant: MOCK is a plain static, one for all threads.
MockStep_Static(t, fn, op, arg, r) ==
    /\ mock' = [u \in Threads |-> [mock[u] EXCEPT ![fn] = r.cell]]
    /\ Did(t, "mock", op, fn, arg, r.out)
    /\ UNCHANGED <<test_build, fake, stub, held, pc, apart>>

MockStep(t, fn, op, arg, r) ==
    /\ mock' = [mock EXCEPT ![t][fn] = r.cell]
    /\ Did(t, "mock", op, fn, arg, r.out)
    /\ UNCHANGED <<test_build, fake, stub, held, pc, apart>>

MockSetup(t, fn, new_f) ==
    /\ test_build
    /\ MockStep(t, fn, "setup", VFn(new_f), mock_setup(mock[t][fn], fn, new_f))

MockClear(t, fn) ==
    /\ test_build
    /\ MockStep(t, fn, "clear", Unit, mock_clear(mock[t][fn], fn))

MockIsSet(t, fn) ==
    /\ test_build
    /\ MockStep(t, fn, "is_set", Unit, mock_is_set(mock[t][fn], fn))

MockCall(t, fn, params) ==
    /\ test_build
    /\ Len(CallsOf(t, fn)) < MaxCalls
    /\ MockStep(t, fn, "call", VTup(params), mock_call(mock[t][fn], fn, params))

MockAssertTimes(t, fn, n) ==
    /\ test_build
    /\ MockStep(t, fn, "assert_times", VInt(n),
                mock_assert_times(mock[t][fn], fn, n))

MockAssertWith(t, fn, params) ==
    /\ test_build
    /\ MockStep(t, fn, "assert_with", VTup(params),
                mock_assert_with(mock[t][fn], fn, params))

CallMocked(t, fn, args) ==
    /\ Len(CallsOf(t, fn)) < MaxCalls
    /\ MockStep(t, fn, "function", VTup(args),
                mocked_function(test_build, mock[t][fn], fn, args))

(***************************************************************************)
(* Fake: add_two_fake and add_two.                                         *)
(***************************************************************************)
FakeStep(t, op, arg, r) ==
    /\ fake' = [fake EXCEPT ![t] = r.cell]
    /\ Did(t, "fake", op, "add_two", arg, r.out)
    /\ UNCHANGED <<test_build, mock, stub, held, pc, apart>>

FakeSetup(t, new_f) ==
    /\ test_build
    /\ FakeStep(t, "setup", VFn(new_f), fake_setup(fake[t], new_f))

FakeClear(t) ==
    /\ test_build
    /\ FakeStep(t, "clear", Unit, fake_clear(fake[t]))

FakeIsSet(t) ==
    /\ test_build
    /\ FakeStep(t, "is_set", Unit, fake_is_set(fake[t]))

FakeGetImplementation(t) ==
    /\ test_build
    /\ FakeStep(t, "get_implementation", Unit,
                fake_get_implementation(fake[t]))

CallFaked(t, x) ==
    FakeStep(t, "function", VInt(x), faked_function(test_build, fake[t], x))

CallAddTwoFake(t, x) ==
    /\ test_build
    /\ FakeStep(t, "add_two_fake", VInt(x), add_two_fake(fake[t], x))

Calc(t, x) ==
    FakeStep(t, "calc", VInt(x), calc(test_build, fake[t], x))

(***************************************************************************)
(* Stub: get_config_stub and get_config.  A value the stub returns goes    *)
(* into one of the test's two local variables.                             *)
(***************************************************************************)
Keep(t, slot, out) ==
    IF out.kind = "Return" THEN [held EXCEPT ![t][slot] = Some(out.val.s)]
    ELSE held

StubSetup(t, return_value) ==
    LET r == stub_setup(stub[t], return_value)
    IN  /\ test_build
        /\ stub' = [stub EXCEPT ![t] = r.cell]
        /\ Did(t, "stub", "setup", "get_config", VStr(return_value), r.out)
        /\ UNCHANGED <<test_build, mock, fake, held, pc, apart>>

StubClear(t) ==
    LET r == stub_clear(stub[t])
    IN  /\ test_build
        /\ stub' = [stub EXCEPT ![t] = r.cell]
        /\ Did(t, "stub", "clear", "get_config", Unit, r.out)
        /\ UNCHANGED <<test_build, mock, fake, held, pc, apart>>

StubGetReturnValue(t, slot) ==
    LET r == stub_get_return_value(stub[t])
    IN  /\ test_build
        /\ stub' = [stub EXCEPT ![t] = r.cell]
        /\ held' = Keep(t, slot, r.out)
        /\ Did(t, "stub", "get_return_value", "get_config", VInt(slot), r.out)
        /\ UNCHANGED <<test_build, mock, fake, pc, apart>>

ProcessConfig(t, slot) ==
    LET r == process_config(test_build, stub[t])
    IN  /\ stub' = [stub EXCEPT ![t] = r.cell]
        /\ held' = Keep(t, slot, r.out)
        /\ Did(t, "stub", "process_config", "get_config", VInt(slot), r.out)
        /\ UNCHANGED <<test_build, mock, fake, pc, apart>>

\* The test changes a duplicate it owns.
MutateHeld(t, slot) ==
    /\ held[t][slot].some
    /\ held' = [held EXCEPT ![t][slot] = Some(Mutate(@.v))]
    /\ Did(t, "stub", "mutate", "get_config", VInt(slot), Return(Unit))
    /\ UNCHANGED <<test_build, mock, fake, stub, pc, apart>>

(***************************************************************************)
(* One test thread driving the doubles of fetch_user, add_two and          *)
(* get_config.                                                             *)
(***************************************************************************)
MockNext(t, fn) ==
    \/ \E new_f \in MockImpls : MockSetup(t, fn, new_f)
    \/ MockClear(t, fn)
    \/ MockIsSet(t, fn)
    \/ \E params \in ParamsOf(fn) : MockCall(t, fn, params)
    \/ \E n \in 0..MaxCalls : MockAssertTimes(t, fn, n)
    \/ \E params \in AssertArgsOf(fn) : MockAssertWith(t, fn, params)
    \/ \E args \in ArgsOf(fn) : CallMocked(t, fn, args)

FakeNext(t) ==
    \/ \E new_f \in FakeImpls : FakeSetup(t, new_f)
    \/ FakeClear(t)
    \/ FakeIsSet(t)
    \/ FakeGetImplementation(t)
    \/ \E x \in FakeArgs : CallFaked(t, x)
    \/ \E x \in FakeArgs : CallAddTwoFake(t, x)
    \/ \E x \in FakeArgs : Calc(t, x)

StubNext(t) ==
    \/ \E v \in StubVals : StubSetup(t, v)
    \/ StubClear(t)
    \/ \E slot \in Slots : StubGetReturnValue(t, slot)
    \/ \E slot \in Slots : ProcessConfig(t, slot)
    \/ \E slot \in Slots : MutateHeld(t, slot)

Next ==
    \E t \in TestThreads :
        \/ \E fn \in SpecFns : MockNext(t, fn)
        \/ FakeNext(t)
        \/ StubNext(t)

Spec == Init /\ [][Next]_vars

(***************************************************************************)
(* Two threads and two mocked functions: fetch_user is used by both        *)
(* threads, send_email by the first one, in any interleaving.              *)
(***************************************************************************)
IsoCells == {<<"t1", "fetch_user">>, <<"t1", "send_email">>,
             <<"t2", "fetch_user">>}

\* Each thread passes its own argument, so that a call shows whose it is.
IsoArgsOf(t, fn) == {a \in ArgsOf(fn) : a[1] = IF t = "t1" THEN 7 ELSE 42}

IsoMockNext ==
    \E c \in IsoCells :
        LET t == c[1]
            fn == c[2]
        IN  \/ \E new_f \in MockImpls : MockSetup(t, fn, new_f)
            \/ MockClear(t, fn)
            \/ MockIsSet(t, fn)
            \/ \E n \in 0..IsoCalls : MockAssertTimes(t, fn, n)
            \/ /\ Len(CallsOf(t, fn)) < IsoCalls
               /\ \E args \in IsoArgsOf(t, fn) :
                     MockCall(t, fn, params_to_tuple(fn, args))
            \/ /\ Len(CallsOf(t, fn)) < IsoCalls
               /\ \E args \in IsoArgsOf(t, fn) : CallMocked(t, fn, args)

\* The second thread also fakes add_two.
IsoFakeNext ==
    \/ \E new_f \in FakeImpls : FakeSetup("t2", new_f)
    \/ FakeClear("t2")
    \/ FakeIsSet("t2")

IsoNext == IsoMockNext \/ IsoFakeNext

SpecIso == Init /\ [][IsoNext]_vars

(***************************************************************************)
(* One test thread driving the mock of fetch_user(db, id), whose db is     *)
(* ignored.                                                                *)
(***************************************************************************)
IgnoreNext ==
    \E t \in TestThreads :
        LET fn == "fetch_user_db"
        IN  \/ \E new_f \in IgnoreImpls : MockSetup(t, fn, new_f)
            \/ MockClear(t, fn)
            \/ MockIsSet(t, fn)
            \/ \E params \in ParamsOf(fn) : MockCall(t, fn, params)
            \/ \E n \in 0..MaxCalls : MockAssertTimes(t, fn, n)
            \/ \E params \in AssertArgsOf(fn) : MockAssertWith(t, fn, params)
            \/ \E args \in ArgsOf(fn) : CallMocked(t, fn, args)

SpecIgnore == Init /\ [][IgnoreNext]_vars

(***************************************************************************)
(* Two test cases of the same mocked function, each in its own thread, as  *)
(* the test harness runs them: set up an implementation, call the function *)
(* once, assert_times(1); no clear().  The threads interleave freely.      *)
(***************************************************************************)
TestFn == "fetch_user"

\* Mutant: MOCK is a plain static, one for all test threads.
TestDoes_Static(t, op, arg, r, next) ==
    /\ mock' = [u \in Threads |-> [mock[u] EXCEPT ![TestFn] = r.cell]]
    /\ Did(t, "mock", op, TestFn, arg, r.out)
    /\ pc' = [pc EXCEPT ![t] = next]
    /\ UNCHANGED <<test_build, fake, stub, held, apart>>

\* One statement of the test case in thread t.
TestDoes(t, op, arg, r, next) ==
    /\ mock' = [mock EXCEPT ![t][TestFn] = r.cell]
    /\ Did(t, "mock", op, TestFn, arg, r.out)
    /\ pc' = [pc EXCEPT ![t] = next]
    /\ UNCHANGED <<test_build, fake, stub, held, apart>>

TestSetsUp(t) ==
    /\ test_build
    /\ pc[t] = "start"
    /\ \E new_f \in MockImpls :
          TestDoes(t, "setup", VFn(new_f),
                   mock_setup(mock[t][TestFn], TestFn, new_f), "configured")

TestCalls(t) ==
    /\ pc[t] = "configured"
    /\ \E args \in ArgsOf(TestFn) :
          TestDoes(t, "function", VTup(args),
                   mocked_function(test_build, mock[t][TestFn], TestFn, args),
                   "called")

\* A panic of assert_times fails the test case.
TestAssertsTimes(t) ==
    LET r == mock_assert_times(mock[t][TestFn], TestFn, 1)
    IN  /\ pc[t] = "called"
        /\ TestDoes(t, "assert_times", VInt(1), r,
                    IF r.out.kind = "Return" THEN "passed" ELSE "failed")

TestsNext ==
    \E t \in Threads :
        \/ TestSetsUp(t)
        \/ TestCalls(t)
        \/ TestAssertsTimes(t)

SpecTests == Init /\ [][TestsNext]_vars

(***************************************************************************)
(* Tests that use a mocked function through the function itself and count  *)
(* their calls: setup, clear, the function, assert_times.                  *)
(***************************************************************************)
Counted(t, op, arg, r, calls) ==
    /\ mock' = [mock EXCEPT ![t][TestFn] = r.cell]
    /\ fn_calls' = [fn_calls EXCEPT ![t][TestFn] = calls]
    /\ Did(t, "mock", op, TestFn, arg, r.out)
    /\ UNCHANGED <<test_build, fake, stub, held, pc, expanded, running>>

CountedNext ==
    \E t \in TestThreads :
        LET cell == mock[t][TestFn]
            c == fn_calls[t][TestFn]
        IN  \/ \E new_f \in MockImpls :
                  /\ test_build
                  /\ Counted(t, "setup", VFn(new_f),
                             mock_setup(cell, TestFn, new_f), c)
            \/ /\ test_build
               /\ Counted(t, "clear", Unit, mock_clear(cell, TestFn),
                          [set |-> 0, unset |-> 0, cleared |-> TRUE])
            \/ \E args \in ArgsOf(TestFn) :
                  /\ c.set < MaxCalls
                  /\ c.unset < MaxCalls
                  /\ Counted(t, "function", VTup(args),
                             mocked_function(test_build, cell, TestFn, args),
                             IF MOCK_with(cell, TestFn).f.some
                             THEN [c EXCEPT !.set = @ + 1]
                             ELSE [c EXCEPT !.unset = @ + 1])
            \/ \E n \in 0..MaxCalls :
                  /\ test_build
                  /\ Counted(t, "assert_times", VInt(n),
                             mock_assert_times(cell, TestFn, n), c)

SpecCounted == Init /\ [][CountedNext]_vars

(***************************************************************************)
(* A call of a generated function followed through its own steps: the      *)
(* is_set() check, the dispatch, what the implementation does to the same  *)
(* double in the same thread while it runs, and the return.  The other     *)
(* threads set up and clear their own instance meanwhile.                  *)
(***************************************************************************)
\* How many operations of an implementation on its own double are followed.
MaxInside == 1

\* RefCell: "already borrowed" / "already mutably borrowed".
BorrowPanic == [kind |-> "BorrowPanic"]

\* Mutant: call takes the implementation out and gives the borrow back
\* before it runs it.
held_while_running_Released(dbl) == "none"

\* Mutant: the borrow get_implementation took lasts while the
\* implementation runs.
held_while_running_Kept(dbl) == IF dbl = "mock" THEN "mut" ELSE "shared"

\* The borrow of the double's RefCell that lasts while the implementation
\* runs: the mock's call runs it inside MOCK.with(|mock| mock.borrow_mut()
\* ..), the faked function runs what get_implementation() returned.
held_while_running(dbl) == IF dbl = "mock" THEN "mut" ELSE "none"

\* RefCell::borrow_mut (call, setup, clear) needs the cell not borrowed,
\* RefCell::borrow (the others; the generated function starts with is_set)
\* needs it not mutably borrowed.
Refused(holds, op) ==
    IF op \in {"call", "setup", "clear"} THEN holds # "none"
    ELSE holds = "mut"

CellOf(t, dbl) == IF dbl = "mock" THEN mock[t][TestFn] ELSE fake[t]

\* A proxy of the double's module, or ("recurse") the generated function.
Proxy(dbl, cell, op, a) ==
    IF dbl = "mock"
    THEN CASE op = "is_set" -> mock_is_set(cell, TestFn)
           [] op = "setup" -> mock_setup(cell, TestFn, a.f)
           [] op = "clear" -> mock_clear(cell, TestFn)
           [] op = "assert_times" -> mock_assert_times(cell, TestFn, a.i)
           [] op = "assert_with" ->
                 mock_assert_with(cell, TestFn, params_to_tuple(TestFn, a.p))
           [] op = "call" -> mock_call(cell, TestFn, params_to_tuple(TestFn, a.p))
           [] op = "recurse" -> mocked_function(test_build, cell, TestFn, a.p)
    ELSE CASE op = "is_set" -> fake_is_set(cell)
           [] op = "setup" -> fake_setup(cell, a.f)
           [] op = "clear" -> fake_clear(cell)
           [] op = "get_implementation" -> fake_get_implementation(cell)
           [] op = "recurse" -> faked_function(test_build, cell, a.i)

\* One step of thread t inside a generated function; frame is what it is
\* inside of afterwards.
InsideDo(t, dbl, op, arg, r, frame) ==
    /\ mock' = IF dbl = "mock" THEN [mock EXCEPT ![t][TestFn] = r.cell]
               ELSE mock
    /\ fake' = IF dbl = "fake" THEN [fake EXCEPT ![t] = r.cell] ELSE fake
    /\ running' = [running EXCEPT ![t] = frame]
    /\ Did(t, dbl, op, IF dbl = "mock" THEN TestFn ELSE "add_two", arg, r.out)
    /\ UNCHANGED <<test_build, stub, held, pc, expanded, fn_calls>>

\* #[cfg(test)] if <module>::is_set() { .. }, else the original body.
EnterFn(t, dbl, arg) ==
    LET chk == Proxy(dbl, CellOf(t, dbl), "is_set", Unit)
    IN  /\ test_build
        /\ running[t] = None
        /\ dbl = "mock" => Len(CallsOf(t, TestFn)) < MaxCalls
        /\ IF chk.out.val.b
           THEN InsideDo(t, dbl, "check", arg, chk,
                         Some([dbl |-> dbl, arg |-> arg, stage |-> "checked",
                               holds |-> "none", f |-> "", n |-> 0]))
           ELSE InsideDo(t, dbl, "function", arg,
                         Proxy(dbl, CellOf(t, dbl), "recurse", arg), None)

\* return <module>::call(params) / <module>::get_implementation()(params),
\* up to the point where the implementation starts to run.
Dispatch(t) ==
    LET fr == running[t].v
        r == Proxy(fr.dbl, CellOf(t, fr.dbl),
                   IF fr.dbl = "mock" THEN "call" ELSE "get_implementation",
                   fr.arg)
    IN  /\ running[t].some
        /\ fr.stage = "checked"
        /\ IF r.out.kind = "Return"
           THEN InsideDo(t, fr.dbl, "dispatch", fr.arg,
                         [cell |-> r.cell, out |-> Return(VFn(r.cell.v.f.v))],
                         Some([fr EXCEPT !.stage = "impl",
                                         !.holds = held_while_running(fr.dbl),
                                         !.f = r.cell.v.f.v]))
           ELSE InsideDo(t, fr.dbl, "function", fr.arg, r, None)

\* The running implementation uses its own double; a panic unwinds
\* through the implementation and the generated function.
Inside(t, dbl, op, a) ==
    LET fr == running[t].v
        cell == CellOf(t, fr.dbl)
        r == IF Refused(fr.holds, op) THEN [cell |-> cell, out |-> BorrowPanic]
             ELSE Proxy(fr.dbl, cell, op, a)
    IN  /\ running[t].some
        /\ fr.dbl = dbl
        /\ fr.stage = "impl"
        /\ fr.n < MaxInside
        /\ (fr.dbl = "mock" /\ op = "recurse") =>
              Len(CallsOf(t, TestFn)) < MaxCalls
        /\ InsideDo(t, fr.dbl, op, a, r,
                    IF r.out.kind = "Return"
                    THEN Some([fr EXCEPT !.n = @ + 1]) ELSE None)

\* The implementation returns, and with it the generated function.
Leave(t) ==
    LET fr == running[t].v
    IN  /\ running[t].some
        /\ fr.stage = "impl"
        /\ InsideDo(t, fr.dbl, "function", fr.arg,
                    [cell |-> CellOf(t, fr.dbl),
                     out  |-> IF fr.dbl = "mock"
                              THEN Return(ApplyMock(fr.f,
                                       params_to_tuple(TestFn, fr.arg.p)))
                              ELSE Return(VInt(ApplyFake(fr.f, fr.arg.i)))],
                    None)

InsideNext ==
    \/ \E t \in Threads :
          /\ running[t] = None
          /\ \/ \E new_f \in MockImpls : MockSetup(t, TestFn, new_f)
             \/ MockClear(t, TestFn)
             \/ \E new_f \in FakeImpls : FakeSetup(t, new_f)
             \/ FakeClear(t)
    \/ \E t \in TestThreads :
          \/ \E args \in ArgsOf(TestFn) : EnterFn(t, "mock", VTup(args))
          \/ \E x \in FakeArgs : EnterFn(t, "fake", VInt(x))
          \/ Dispatch(t)
          \/ \E dbl \in {"mock", "fake"}, op \in {"is_set", "clear"} :
                Inside(t, dbl, op, Unit)
          \/ \E new_f \in MockImpls : Inside(t, "mock", "setup", VFn(new_f))
          \/ \E new_f \in FakeImpls : Inside(t, "fake", "setup", VFn(new_f))
          \/ \E n \in 0..MaxCalls : Inside(t, "mock", "assert_times", VInt(n))
          \/ \E args \in ArgsOf(TestFn) :
                \/ Inside(t, "mock", "assert_with", VTup(args))
                \/ Inside(t, "mock", "recurse", VTup(args))
          \/ \E x \in FakeArgs : Inside(t, "fake", "recurse", VInt(x))
          \/ Leave(t)

SpecInside == Init /\ [][InsideNext]_vars

(***************************************************************************)
(* The macros at compile time: what they are given and what they expand    *)
(* to.  An item under #[cfg(test)] is part of a test build only, an item   *)
(* under #[cfg(not(test))] of the other builds only.                       *)
(***************************************************************************)
\* The longest group { .. } of a use statement that is looked at.
MaxGroup == 2

UseFns == {"fetch_user", "send_email"}
UseMods == {"service", "db"}
Suffixes == {"_mock", "_fake"}

SeqsUpTo(S, n) == UNION {[1..k -> S] : k \in 0..n}

\* syn::UseTree
UseName(f) == [kind |-> "Name", ident |-> f, items |-> <<>>]
UsePath(m, tree) == [kind |-> "Path", ident |-> m, items |-> <<tree>>]
UseGroup(items) == [kind |-> "Group", ident |-> "{}", items |-> items]
UseRename(f) == [kind |-> "Rename", ident |-> f, items |-> <<>>]
UseGlob == [kind |-> "Glob", ident |-> "*", items |-> <<>>]

\* The use statements looked at: a leaf, a group of leaves and one-module
\* paths, or either behind one module.
UseTrees ==
    LET leafs == {UseName(f) : f \in UseFns}
                     \cup {UseRename("fetch_user"), UseGlob}
        inner == leafs \cup {UsePath(m, UseName(f)) :
                                m \in UseMods, f \in UseFns}
        groups == {UseGroup(items) : items \in SeqsUpTo(inner, MaxGroup)}
    IN  leafs \cup groups
            \cup {UsePath(m, tree) : m \in UseMods, tree \in leafs \cup groups}

Panic(message) == [panic |-> TRUE, message |-> message]

\* base_path is the caller's vector: a Path pushes onto it, a Group works
\* on clones of it.
RECURSIVE process_use_tree(_, _)
RECURSIVE process_use_group(_, _, _)
process_use_tree(tree, base_path) ==
    CASE tree.kind = "Path" ->
            process_use_tree(tree.items[1], Append(base_path, tree.ident))
      [] tree.kind = "Name" ->
            [panic |-> FALSE, base_path |-> base_path,
             mappings |-> <<<<tree.ident, tree.ident \o "_mock">>>>]
      [] tree.kind = "Group" ->
            process_use_group(tree.items, base_path, <<>>)
      [] OTHER -> Panic("Unsupported use tree format")

process_use_group(items, base_path, results) ==
    IF items = <<>>
    THEN [panic |-> FALSE, base_path |-> base_path, mappings |-> results]
    ELSE LET r == process_use_tree(Head(items), base_path)
         IN  IF r.panic THEN r
             ELSE process_use_group(Tail(items), base_path,
                                    results \o r.mappings)

Cfg(cond, item) == [cfg |-> cond, item |-> item]

UseAs(module_path, form, aliases) ==
    [kind |-> "Use", ident |-> form, items |-> <<module_path, aliases>>]

generate_single_import(input, module_path, fn_name, modified_fn_name) ==
    << Cfg("not(test)", input),
       Cfg("test", UseAs(module_path, "single",
                         <<<<modified_fn_name, fn_name>>>>)) >>

\* Mutant: only the first function of the group is redirected.
generate_multiple_imports_First(input, module_path, function_mappings) ==
    << Cfg("not(test)", input),
       Cfg("test", UseAs(module_path, "group",
                         IF function_mappings = <<>> THEN <<>>
                         ELSE << <<function_mappings[1][2],
                                   function_mappings[1][1]>> >>)) >>

generate_multiple_imports(input, module_path, function_mappings) ==
    LET alias_mappings ==
            [i \in 1..Len(function_mappings) |->
                <<function_mappings[i][2], function_mappings[i][1]>>]
    IN  << Cfg("not(test)", input),
           Cfg("test", UseAs(module_path, "group", alias_mappings)) >>

process_use_statement(input, suffix) ==
    LET r == process_use_tree(input, <<>>)
        modified_mappings ==
            [i \in 1..Len(r.mappings) |->
                <<r.mappings[i][1], r.mappings[i][1] \o suffix>>]
    IN  IF r.panic THEN r
        ELSE [panic |-> FALSE,
              items |->
                IF Len(modified_mappings) = 1
                THEN generate_single_import(input, r.base_path,
                                            modified_mappings[1][1],
                                            modified_mappings[1][2])
                ELSE generate_multiple_imports(input, r.base_path,
                                               modified_mappings)]

\* The expression use_fake_inline!(..) is given: a path, or something else.
ExprPath(segments) == [kind |-> "ExprPath", ident |-> "", items |-> segments]
InlineExprs ==
    LET paths == {<<f>> : f \in UseFns}
                     \cup {<<m, f>> : m \in UseMods, f \in UseFns}
                     \cup {<<"crate", m, f>> : m \in UseMods, f \in UseFns}
    IN  {ExprPath(p) : p \in paths \cup {<<>>}}
            \cup {[ExprPath(p) EXCEPT !.kind = "ExprCall"] : p \in paths}

process_use_fake_inline(input) ==
    IF input.kind # "ExprPath"
    THEN [panic |-> TRUE,
          message |-> "use_fake_inline expects a function identifier or path"]
    ELSE IF input.items = <<>>
    THEN [panic |-> TRUE,
          message |-> "Could not extract function name from path"]
    ELSE LET segments == input.items
             fake_fn_name == segments[Len(segments)] \o "_fake"
             fake_path == [segments EXCEPT ![Len(segments)] = fake_fn_name]
         IN  [panic |-> FALSE,
              items |-> << Cfg("not(test)", input),
                           Cfg("test", ExprPath(fake_path)) >>]

Expanded(macro, input, out) ==
    /\ expanded' = [macro |-> macro, input |-> input, out |-> out]
    /\ UNCHANGED <<test_build, mock, fake, stub, held, pc, running, fn_calls,
                   ret>>

\* #[use_function_mock] / #[use_function_fake] on a use statement; one
\* macro invocation is looked at per run.
ExpandUse ==
    \E input \in UseTrees, suffix \in Suffixes :
        /\ expanded.macro = "none"
        /\ Expanded("use_function" \o suffix, input,
                    process_use_statement(input, suffix))

ExpandUseInline ==
    \E input \in InlineExprs :
        /\ expanded.macro = "none"
        /\ Expanded("use_fake_inline", input, process_use_fake_inline(input))

\* The functions #[fake_function] is put on: syn::ItemFn, of which the
\* name and the async keyword matter here.
ItemFns == [kind : {"Fn"}, ident : {"add_two", "load_config"},
            items : {<<"async">>, <<>>}]

validate_function_fakeable(function) ==
    IF function.items # <<>>
    THEN Panic("Cannot fake async functions")
    ELSE [panic |-> FALSE]

\* Mutant: the function is validated before anything is generated.
process_fake_function_Validated(fake_function) ==
    IF validate_function_fakeable(fake_function).panic
    THEN validate_function_fakeable(fake_function)
    ELSE [panic |-> FALSE,
          items |-> << Cfg("always", fake_function),
                       Cfg("test", [kind |-> "Mod",
                                    ident |-> fake_function.ident \o "_fake",
                                    items |-> fake_function.items]) >>]

\* The generated function keeps fn_asyncness; the module is told of it for
\* the documentation of setup.
process_fake_function(fake_function) ==
    LET fn_asyncness == fake_function.items
        fn_name == fake_function.ident
    IN  [panic |-> FALSE,
         items |-> << Cfg("always", [kind |-> "Fn", ident |-> fn_name,
                                     items |-> fn_asyncness]),
                      Cfg("test", [kind |-> "Mod",
                                   ident |-> fn_name \o "_fake",
                                   items |-> fn_asyncness]) >>]

ExpandFake ==
    \E item \in ItemFns :
        /\ expanded.macro = "none"
        /\ Expanded("fake_function", item, process_fake_function(item))

MacroNext == ExpandUse \/ ExpandUseInline \/ ExpandFake

SpecMacros == Init /\ [][MacroNext]_vars

(***************************************************************************)
(* #[mock_function(..)]: MockFunctionArgs::parse reading the attribute's    *)
(* arguments, one iteration of its loop per step.                          *)
(***************************************************************************)
\* The arguments looked at are made of at most this many pieces.
MaxPieces == 3

\* The pieces: every kind of token alone, and ignore = [..] with a list of
\* one name, of two, with a trailing comma, and with the comma missing.
ArgPieces ==
    LET id(name) == [kind |-> "Ident", ident |-> name, items |-> <<>>]
        eq == [kind |-> "Punct", ident |-> "=", items |-> <<>>]
        comma == [kind |-> "Punct", ident |-> ",", items |-> <<>>]
        lit == [kind |-> "Lit", ident |-> "3", items |-> <<>>]
        list(content) == [kind |-> "Bracket", ident |-> "[]",
                          items |-> content]
    IN  { <<id("ignore")>>, <<id("verbose")>>, <<eq>>, <<comma>>, <<lit>>,
          <<list(<<id("db")>>)>>,
          <<id("ignore"), eq, list(<<id("db")>>)>>,
          <<id("ignore"), eq, list(<<id("id"), comma, id("db")>>)>>,
          <<id("ignore"), eq, list(<<id("id"), comma>>)>>,
          <<id("ignore"), eq, list(<<id("id"), id("db")>>)>> }

RECURSIVE Flatten(_)
Flatten(pieces) ==
    IF pieces = <<>> THEN <<>> ELSE Head(pieces) \o Flatten(Tail(pieces))

\* content.parse_terminated(syn::Ident::parse, Token![,])
RECURSIVE parse_terminated(_, _)
parse_terminated(content, names) ==
    IF content = <<>> THEN [panic |-> FALSE, names |-> names]
    ELSE IF Head(content).kind # "Ident" THEN Panic("expected identifier")
    ELSE IF Tail(content) = <<>>
    THEN [panic |-> FALSE, names |-> Append(names, Head(content).ident)]
    ELSE IF Head(Tail(content)).ident # "," THEN Panic("expected ,")
    ELSE parse_terminated(Tail(Tail(content)),
                          Append(names, Head(content).ident))

\* Mutant: the names of a later ignore = [..] are added to the earlier ones.
MockFunctionArgs_parse_Merges(st) ==
    LET input == st.rest
        names == parse_terminated(input[3].items, <<>>)
        after == IF input[1].ident = "ignore" THEN SubSeq(input, 4, Len(input))
                 ELSE Tail(input)
        left == IF after # <<>> /\ Head(after).ident = "," THEN Tail(after)
                ELSE after
    IN  IF input[1].kind # "Ident" THEN Panic("expected identifier")
        ELSE IF input[1].ident = "ignore"
                  /\ (Len(input) < 3 \/ input[2].ident # "="
                        \/ input[3].kind # "Bracket" \/ names.panic)
        THEN Panic("expected =, square brackets or identifier")
        ELSE [panic |-> FALSE, rest |-> left,
              status |-> IF left = <<>> THEN "ok" ELSE "parsing",
              ignore |-> IF input[1].ident = "ignore"
                         THEN st.ignore \o names.names ELSE st.ignore]

\* One iteration of while !input.is_empty(), for input not empty, and
\* the test of the loop that follows it.
MockFunctionArgs_parse(st) ==
    LET input == st.rest
        key == input[1]
    IN  IF key.kind # "Ident" THEN Panic("expected identifier")
        ELSE LET is_ignore == key.ident = "ignore"
                 names == parse_terminated(input[3].items, <<>>)
                 after == IF is_ignore THEN SubSeq(input, 4, Len(input))
                          ELSE Tail(input)
                 left == IF after # <<>> /\ Head(after).ident = ","
                         THEN Tail(after) ELSE after
             IN  IF is_ignore /\ (Len(input) < 2 \/ input[2].ident # "=")
                 THEN Panic("expected =")
                 ELSE IF is_ignore
                           /\ (Len(input) < 3 \/ input[3].kind # "Bracket")
                 THEN Panic("expected square brackets")
                 ELSE IF is_ignore /\ names.panic THEN names
                 ELSE [panic |-> FALSE, rest |-> left,
                       status |-> IF left = <<>> THEN "ok" ELSE "parsing",
                       ignore |-> IF is_ignore THEN names.names
                                  ELSE st.ignore]

\* mock_function is given its attribute; nothing to parse if it is empty.
ParseBegin ==
    \E pieces \in SeqsUpTo(ArgPieces, MaxPieces) :
        /\ expanded.macro = "none"
        /\ Expanded("mock_function", Flatten(pieces),
                    [panic |-> FALSE, rest |-> Flatten(pieces),
                     status |-> IF pieces = <<>> THEN "ok" ELSE "parsing",
                     ignore |-> <<>>])

ParseStep ==
    /\ expanded.macro = "mock_function"
    /\ ~expanded.out.panic
    /\ expanded.out.status = "parsing"
    /\ Expanded("mock_function", expanded.input,
                MockFunctionArgs_parse(expanded.out))

ParseNext == ParseBegin \/ ParseStep

\* The parser runs on: nothing suspends it.
SpecParse == Init /\ [][ParseNext]_vars /\ WF_vars(ParseStep)

(***************************************************************************)
(* What the claims speak of.  A step's operation is the one ret' records;  *)
(* the object of a double is what its thread_local holds, or what the      *)
(* initialiser builds when the thread has not touched it yet.              *)
(***************************************************************************)
MockObj(t, fn) == MOCK_with(mock[t][fn], fn)
FakeObj(t) == FAKE_with(fake[t])
StubObj(t) == STUB_with(stub[t])

\* The same after the step.
MockObjNext(t, fn) == MOCK_with(mock'[t][fn], fn)
FakeObjNext(t) == FAKE_with(fake'[t])
StubObjNext(t) == STUB_with(stub'[t])

FreshMock(t, fn) == MockObj(t, fn) = FunctionMock_new(mock_mod_name(fn))
FreshFake(t) == FakeObj(t) = FunctionFake_new(fake_mod_name)
FreshStub(t) == StubObj(t) = FunctionStub_new(stub_fn_name)

\* The name of the annotated function a double stands for.
OriginalName(dbl, fn) ==
    CASE dbl = "mock" -> IF fn = "fetch_user_db" THEN "fetch_user" ELSE fn
      [] dbl = "fake" -> "add_two"
      [] dbl = "stub" -> "get_config"

MockDispatch == {"call"}
FakeDispatch == {"get_implementation", "add_two_fake"}
StubDispatch == {"get_return_value", "process_config"}

\* ---- C1: the condition on a step ----
C1_FreshStep ==
    \A t \in Threads :
        /\ (ret'.t = t /\ ret'.dbl = "mock" /\ FreshMock(t, ret'.fn)) =>
              /\ ret'.op = "is_set" => ret'.out = Return(VBool(FALSE))
              /\ ret'.op \in MockDispatch =>
                    ret'.out = NotConfigured(mock_mod_name(ret'.fn))
        /\ (ret'.t = t /\ ret'.dbl = "fake" /\ FreshFake(t)) =>
              /\ ret'.op = "is_set" => ret'.out = Return(VBool(FALSE))
              /\ ret'.op \in FakeDispatch =>
                    ret'.out = NotConfigured(fake_mod_name)
        /\ (ret'.t = t /\ ret'.dbl = "stub" /\ FreshStub(t) /\ test_build) =>
              /\ FunctionStub_is_set(StubObj(t)).out = Return(VBool(FALSE))
              /\ ret'.op \in StubDispatch =>
                    ret'.out = NotConfigured(stub_fn_name)

(***************************************************************************)
(* C1.  A double in its freshly constructed state (the thread's first      *)
(* access, or any access before a setup has changed it) is not set:        *)
(* is_set() returns false, and every dispatch (mock call, fake             *)
(* get_implementation, stub get_return_value) panics with NotConfigured.   *)
(* Every double starts in that state.                                      *)
(***************************************************************************)
C1_FreshUnconfigured ==
    /\ \A t \in Threads :
          /\ \A fn \in MockFns : FreshMock(t, fn)
          /\ FreshFake(t)
          /\ FreshStub(t)
    /\ [][C1_FreshStep]_vars

\* The first thing a thread did with the mock was a call, and it panicked.
C1_Witness ==
    /\ ret.dbl = "mock" /\ ret.op = "call"
    /\ ret.out.kind = "NotConfigured"
    /\ Len(MockObj(ret.t, ret.fn).calls) = 1
    /\ fake[ret.t] = None /\ stub[ret.t] = None

\* ---- C2: the condition on a step ----
ConfiguredMock(t, fn) == MockObj(t, fn).f.some
ConfiguredFake(t) == FakeObj(t).f.some
ConfiguredStub(t) == StubObj(t).value.some

\* What a step of operation op on the double does to Configured (was: before
\* the step, now: after it).
C2_Transition(mine, was, now) ==
    IF mine /\ ret'.op = "setup" THEN now
    ELSE IF mine /\ ret'.op = "clear" THEN ~now
    ELSE now = was

C2_Step ==
    \A t \in Threads :
        /\ \A fn \in MockFns :
              LET mine == ret'.t = t /\ ret'.dbl = "mock" /\ ret'.fn = fn
              IN  \/ (~mine /\ mock'[t][fn] = mock[t][fn])
                  \/ /\ C2_Transition(mine, ConfiguredMock(t, fn),
                                       ConfiguredMock(t, fn)')
                     /\ (mine /\ ret'.op = "is_set") =>
                           ret'.out = Return(VBool(ConfiguredMock(t, fn)))
        /\ LET mine == ret'.t = t /\ ret'.dbl = "fake"
           IN  /\ C2_Transition(mine, ConfiguredFake(t), ConfiguredFake(t)')
               /\ (mine /\ ret'.op = "is_set") =>
                     ret'.out = Return(VBool(ConfiguredFake(t)))
        /\ LET mine == ret'.t = t /\ ret'.dbl = "stub"
           IN  C2_Transition(mine, ConfiguredStub(t), ConfiguredStub(t)')

(***************************************************************************)
(* C2.  Configured / Unconfigured.  Every double starts Unconfigured; a    *)
(* setup leaves it Configured and a clear leaves it Unconfigured, whatever *)
(* it was before; no other operation, on this double or on another one,    *)
(* changes which of the two it is; and is_set() returns true exactly when  *)
(* it is Configured.  So is_set() is true iff a setup was performed and no *)
(* clear came after the most recent one.                                   *)
(***************************************************************************)
C2_ConfiguredIffSetup ==
    /\ \A t \in Threads :
          /\ \A fn \in MockFns : ~ConfiguredMock(t, fn)
          /\ ~ConfiguredFake(t)
          /\ ~ConfiguredStub(t)
    /\ [][C2_Step]_vars

\* is_set() returned true on a mock that was set up and then called until
\* its log was full.
C2_Witness ==
    /\ ret.dbl = "mock" /\ ret.op = "is_set"
    /\ ret.out = Return(VBool(TRUE))
    /\ Len(MockObj(ret.t, ret.fn).calls) = MaxCalls

\* ---- C3: the condition on a step ----
C3_Step ==
    \A t \in Threads :
        /\ (ret'.t = t /\ ret'.dbl = "mock" /\ ret'.op = "clear") =>
              LET fn == ret'.fn
              IN  /\ mock'[t][fn] = Some(FunctionMock_new(mock_mod_name(fn)))
                  /\ MockObjNext(t, fn).name = MockObj(t, fn).name
                  /\ mock_assert_times(mock'[t][fn], fn, 0).out = Return(Unit)
                  /\ \A q \in AssertArgsOf(fn) :
                        mock_assert_with(mock'[t][fn], fn, q).out.kind
                            = "AssertionFailure"
                  /\ FreshMock(t, fn) => MockObjNext(t, fn) = MockObj(t, fn)
        /\ (ret'.t = t /\ ret'.dbl = "fake" /\ ret'.op = "clear") =>
              /\ fake'[t] = Some(FunctionFake_new(fake_mod_name))
              /\ FakeObjNext(t).name = FakeObj(t).name
              /\ FreshFake(t) => FakeObjNext(t) = FakeObj(t)
        /\ (ret'.t = t /\ ret'.dbl = "stub" /\ ret'.op = "clear") =>
              /\ stub'[t] = Some(FunctionStub_new(stub_fn_name))
              /\ StubObjNext(t).name = StubObj(t).name
              /\ FreshStub(t) => StubObjNext(t) = StubObj(t)

(***************************************************************************)
(* C3.  clear() leaves a double exactly as its initialiser builds it,      *)
(* whatever it held before: a mock has no implementation and an empty call *)
(* log (assert_times(0) succeeds, every assert_with fails), a fake has no  *)
(* implementation, a stub has no value; the name is the one it had; and a  *)
(* clear() of a cleared double changes nothing.                            *)
(***************************************************************************)
C3_ClearRestoresFresh == [][C3_Step]_vars

\* A stub was set up and read into both of the test's variables, and then
\* cleared.
C3_Witness ==
    /\ ret.dbl = "stub" /\ ret.op = "clear"
    /\ \A i \in Slots : held[ret.t][i] = Some("test_config")
    /\ stub[ret.t] = Some(FunctionStub_new(stub_fn_name))

\* ---- C4: the condition on a step ----
C4_Step ==
    \A t \in Threads : \A fn \in MockFns :
        LET mine == ret'.t = t /\ ret'.dbl = "mock" /\ ret'.fn = fn
            log == MockObj(t, fn).calls
            log2 == MockObjNext(t, fn).calls
        IN  /\ IF mine /\ ret'.op = "call"
                  THEN log2 = Append(log, ret'.arg.p)
               ELSE IF mine /\ ret'.op = "clear"
                  THEN log2 = <<>>
               ELSE IF mine /\ ret'.op = "function"
                  THEN log2 = IF test_build /\ ConfiguredMock(t, fn)
                              THEN Append(log, params_to_tuple(fn, ret'.arg.p))
                              ELSE log
               ELSE log2 = log
            /\ (mine /\ ret'.op = "assert_times") =>
                  IF ret'.arg.i = Len(log)
                  THEN ret'.out = Return(Unit)
                  ELSE ret'.out.kind = "AssertionFailure"

(***************************************************************************)
(* C4.  The call log of a mock is the sequence of the parameters call was  *)
(* invoked with since construction or the last clear(), in call order:     *)
(* it starts empty, call(p) appends p, the generated function appends its  *)
(* parameters exactly when it dispatches to call, clear() empties it and   *)
(* nothing else changes it.  assert_times(m) succeeds iff m is the length  *)
(* of the log and panics with AssertionFailure otherwise.                  *)
(***************************************************************************)
C4_LogIsCallSequence ==
    /\ \A t \in Threads : \A fn \in MockFns : MockObj(t, fn).calls = <<>>
    /\ [][C4_Step]_vars

\* After call(42) and call(7), assert_times(2) succeeded.
C4_Witness ==
    /\ ret.dbl = "mock" /\ ret.op = "assert_times"
    /\ ret.arg = VInt(2) /\ ret.out = Return(Unit)
    /\ MockObj(ret.t, ret.fn).calls = << <<42>>, <<7>> >>

\* ---- C5: the condition on a step ----
C5_Step ==
    \A t \in Threads :
        (ret'.t = t /\ ret'.dbl = "mock" /\ ret'.op = "assert_with") =>
            LET log == MockObj(t, ret'.fn).calls
            IN  IF \E i \in 1..Len(log) : log[i] = ret'.arg.p
                THEN ret'.out = Return(Unit)
                ELSE ret'.out.kind = "AssertionFailure"

(***************************************************************************)
(* C5.  assert_with(q) succeeds iff some entry of the call log equals q,   *)
(* whichever entry it is, and panics with AssertionFailure otherwise.      *)
(***************************************************************************)
C5_AssertWithAnyCall == [][C5_Step]_vars

\* assert_with(42) succeeded although the last logged call was call(7).
C5_Witness ==
    /\ ret.dbl = "mock" /\ ret.op = "assert_with"
    /\ ret.arg = VTup(<<42>>) /\ ret.out = Return(Unit)
    /\ MockObj(ret.t, ret.fn).calls = << <<42>>, <<7>> >>

\* ---- C6: the condition on a step ----
C6_Step ==
    \A t \in Threads :
        (/\ ret'.t = t /\ ret'.dbl = "mock" /\ ret'.op = "call"
         /\ ~ConfiguredMock(t, ret'.fn)) =>
            LET fn == ret'.fn
                log == MockObj(t, fn).calls
            IN  /\ ret'.out = NotConfigured(mock_mod_name(fn))
                /\ MockObjNext(t, fn).calls = Append(log, ret'.arg.p)
                /\ mock_assert_times(mock'[t][fn], fn, Len(log) + 1).out
                      = Return(Unit)

(***************************************************************************)
(* C6.  call(params) on a mock without an implementation appends params to *)
(* the call log and then panics with NotConfigured: the log is longer by   *)
(* exactly that entry, and assert_times counts the failed call.            *)
(***************************************************************************)
C6_UnsetCallIsLogged == [][C6_Step]_vars

\* A mock without an implementation whose log holds failed calls only, and
\* assert_times counted them.
C6_Witness ==
    /\ ret.dbl = "mock" /\ ret.op = "assert_times"
    /\ ret.arg = VInt(MaxCalls) /\ ret.out = Return(Unit)
    /\ ~ConfiguredMock(ret.t, ret.fn)
    /\ Len(MockObj(ret.t, ret.fn).calls) = MaxCalls

\* ---- C7: the condition on a step ----
C7_Step ==
    \A t \in Threads :
        (/\ ret'.t = t /\ ret'.dbl = "mock" /\ test_build
         /\ ret'.op \in {"call", "function"}
         /\ ConfiguredMock(t, ret'.fn)) =>
            ret'.out = Return(ApplyMock(MockObj(t, ret'.fn).f.v,
                            IF ret'.op = "call" THEN ret'.arg.p
                            ELSE params_to_tuple(ret'.fn, ret'.arg.p)))

(***************************************************************************)
(* C7.  call(params) on a mock with an implementation returns what the     *)
(* implementation configured at that moment returns for params, an Err as  *)
(* it is; so does the generated function in a test build, which hands its  *)
(* parameters to call.                                                     *)
(***************************************************************************)
C7_CallReturnsImplResult == [][C7_Step]_vars

\* With |id| Ok("user_" + id) set up, fetch_user(42) and then fetch_user(7)
\* were called, and the second call returned Ok("user_7").
C7_Witness ==
    /\ ret.dbl = "mock" /\ ret.op = "function"
    /\ ret.arg = VTup(<<7>>) /\ ret.out = Return(ResOk("user_7"))
    /\ MockObj(ret.t, ret.fn).f = Some("user_of_id")
    /\ MockObj(ret.t, ret.fn).calls = << <<42>>, <<7>> >>

\* ---- C8: the condition on a step ----
C8_Step ==
    \A t \in Threads :
        /\ (ret'.t = t /\ ret'.dbl = "mock") =>
              LET fn == ret'.fn
              IN  /\ ret'.op = "setup" =>
                        MockObjNext(t, fn).f = Some(ret'.arg.f)
                  /\ ret'.op = "clear" => MockObjNext(t, fn).f = None
                  /\ (ret'.op = "call" /\ ConfiguredMock(t, fn)) =>
                        ret'.out = Return(ApplyMock(MockObj(t, fn).f.v,
                                                    ret'.arg.p))
        /\ (ret'.t = t /\ ret'.dbl = "fake") =>
              /\ ret'.op = "setup" => FakeObjNext(t).f = Some(ret'.arg.f)
              /\ ret'.op = "clear" => FakeObjNext(t).f = None
              /\ (ret'.op = "get_implementation" /\ ConfiguredFake(t)) =>
                    ret'.out = Return(VFn(FakeObj(t).f.v))
        /\ (ret'.t = t /\ ret'.dbl = "stub") =>
              /\ ret'.op = "setup" => StubObjNext(t).value = Some(ret'.arg.s)
              /\ ret'.op = "clear" => StubObjNext(t).value = None
              /\ (ret'.op = "get_return_value" /\ ConfiguredStub(t)) =>
                    ret'.out = Return(VStr(StubObj(t).value.v))

(***************************************************************************)
(* C8.  A setup replaces whatever was configured: after setup(b) the       *)
(* double holds b and nothing else, every dispatch uses what the double    *)
(* holds at that moment (mock call, fake get_implementation, stub          *)
(* get_return_value), and one clear() leaves nothing configured.           *)
(***************************************************************************)
C8_SetupReplaces == [][C8_Step]_vars

\* The stub returned "test_config", was set up again with "other_config"
\* and then returned "other_config".
C8_Witness ==
    /\ ret.dbl = "stub" /\ ret.op = "get_return_value"
    /\ ret.arg = VInt(2) /\ ret.out = Return(VStr("other_config"))
    /\ held[ret.t][1] = Some("test_config")
    /\ held[ret.t][2] = Some("other_config")

\* ---- C9: the condition on a step ----
C9_Step ==
    \A t \in Threads :
        (ret'.t = t /\ ret'.dbl = "stub") =>
            LET slot == ret'.arg.i
                others == \A j \in Slots \ {slot} : held'[t][j] = held[t][j]
            IN  /\ (ret'.op = "get_return_value" /\ ConfiguredStub(t)) =>
                      /\ ret'.out = Return(VStr(StubObj(t).value.v))
                      /\ StubObjNext(t) = StubObj(t)
                      /\ held'[t][slot] = Some(StubObj(t).value.v)
                      /\ others
                /\ (ret'.op = "get_return_value" /\ ~ConfiguredStub(t)) =>
                      /\ ret'.out = NotConfigured(stub_fn_name)
                      /\ StubObjNext(t) = StubObj(t)
                      /\ held' = held
                /\ ret'.op = "mutate" =>
                      /\ stub' = stub
                      /\ held'[t][slot] = Some(Mutate(held[t][slot].v))
                      /\ others

(***************************************************************************)
(* C9.  Stub: with v set up, get_return_value() returns v every time and   *)
(* leaves the stub as it was; changing a duplicate the test holds changes  *)
(* neither the stub nor the other duplicate; without a value (never set    *)
(* up, or cleared) get_return_value() panics with NotConfigured.           *)
(***************************************************************************)
C9_StubReturnsDuplicates == [][C9_Step]_vars

\* Two duplicates of "test_config" were taken, the first one was changed,
\* and the stub and the second one still hold "test_config".
C9_Witness ==
    /\ ret.dbl = "stub" /\ ret.op = "mutate" /\ ret.arg = VInt(1)
    /\ held[ret.t][1] = Some(Mutate("test_config"))
    /\ held[ret.t][2] = Some("test_config")
    /\ StubObj(ret.t).value = Some("test_config")

\* ---- C10: the condition on a step ----
C10_Step ==
    \A t \in Threads :
        (ret'.t = t /\ ret'.dbl = "fake") =>
            /\ (ret'.op = "get_implementation" /\ ConfiguredFake(t)) =>
                  /\ ret'.out.kind = "Return"
                  /\ \A x \in FakeArgs :
                        ApplyFake(ret'.out.val.f, x)
                            = ApplyFake(FakeObj(t).f.v, x)
            /\ (/\ ret'.op \in {"function", "add_two_fake"}
                /\ test_build /\ ConfiguredFake(t)) =>
                  ret'.out = Return(VInt(ApplyFake(FakeObj(t).f.v,
                                                   ret'.arg.i)))
            /\ (ret'.op = "calc" /\ test_build /\ ConfiguredFake(t)) =>
                  ret'.out = Return(VInt(ApplyFake(FakeObj(t).f.v, ret'.arg.i)
                                       + ApplyFake(FakeObj(t).f.v, ret'.arg.i)))
            /\ ret'.op \in {"get_implementation", "function",
                            "add_two_fake", "calc"} =>
                  /\ FakeObjNext(t) = FakeObj(t)
                  /\ UNCHANGED <<mock, stub, held>>

(***************************************************************************)
(* C10.  Fake: with f set up, get_implementation() returns an              *)
(* implementation that yields what f yields on every argument; calc(x),    *)
(* which calls the faked add_two twice, yields f(x) + f(x) (16 for         *)
(* f = |_| 8); and no way of invoking the fake changes the fake.           *)
(***************************************************************************)
C10_FakeDispatch == [][C10_Step]_vars

\* With |_| 8 set up, calc(2) returned 16.
C10_Witness ==
    /\ ret.dbl = "fake" /\ ret.op = "calc"
    /\ ret.arg = VInt(2) /\ ret.out = Return(VInt(16))
    /\ FakeObj(ret.t).f = Some("const_8")

\* ---- C11: the condition on a step ----
MockQueries == {"is_set", "assert_times", "assert_with"}
FakeQueries == {"is_set", "get_implementation"}
StubQueries == {"get_return_value"}

\* What the query of the step would yield if it were asked again right
\* after the step.
C11_MockAgain(t, fn) ==
    CASE ret'.op = "is_set" -> mock_is_set(mock'[t][fn], fn)
      [] ret'.op = "assert_times" ->
            mock_assert_times(mock'[t][fn], fn, ret'.arg.i)
      [] ret'.op = "assert_with" ->
            mock_assert_with(mock'[t][fn], fn, ret'.arg.p)

C11_FakeAgain(t) ==
    IF ret'.op = "is_set" THEN fake_is_set(fake'[t])
    ELSE fake_get_implementation(fake'[t])

C11_Step ==
    \A t \in Threads :
        /\ (ret'.t = t /\ ret'.dbl = "mock" /\ ret'.op \in MockQueries) =>
              LET fn == ret'.fn
              IN  /\ MockObjNext(t, fn) = MockObj(t, fn)
                  /\ C11_MockAgain(t, fn).out = ret'.out
                  /\ C11_MockAgain(t, fn).cell = mock'[t][fn]
        /\ (ret'.t = t /\ ret'.dbl = "fake" /\ ret'.op \in FakeQueries) =>
              /\ FakeObjNext(t) = FakeObj(t)
              /\ C11_FakeAgain(t).out = ret'.out
              /\ C11_FakeAgain(t).cell = fake'[t]
        /\ (ret'.t = t /\ ret'.dbl = "stub" /\ ret'.op \in StubQueries) =>
              /\ StubObjNext(t) = StubObj(t)
              /\ stub_get_return_value(stub'[t]).out = ret'.out
              /\ stub_get_return_value(stub'[t]).cell = stub'[t]

(***************************************************************************)
(* C11.  A query leaves the double as it found it, whether it returns or   *)
(* panics: is_set, assert_times and assert_with of a mock, is_set and      *)
(* get_implementation of a fake and get_return_value of a stub change      *)
(* neither the implementation or value, nor the call log, nor the name;    *)
(* asked again right away, the query ends the same way and again changes   *)
(* nothing.                                                                *)
(***************************************************************************)
C11_QueriesKeepState == [][C11_Step]_vars

\* assert_times(MaxCalls) succeeded on a configured mock with a full log,
\* and the log is still full.
C11_Witness ==
    /\ ret.dbl = "mock" /\ ret.op = "assert_times"
    /\ ret.arg = VInt(MaxCalls) /\ ret.out = Return(Unit)
    /\ ConfiguredMock(ret.t, ret.fn)
    /\ Len(MockObj(ret.t, ret.fn).calls) = MaxCalls

\* ---- C12: the condition on a step ----
C12_Step ==
    \A t \in Threads :
        (ret'.t = t /\ ret'.dbl = "mock") =>
            LET fn == ret'.fn
                own == MockObj(t, fn)
            IN  \* no other instance changes
                /\ \A u \in Threads : \A g \in MockFns :
                      ~(u = t /\ g = fn) => mock'[u][g] = mock[u][g]
                /\ UNCHANGED <<fake, stub, held>>
                \* what the operation yields is decided by its own instance
                /\ ret'.op = "is_set" => ret'.out = Return(VBool(own.f.some))
                /\ ret'.op = "assert_times" =>
                      (ret'.out = Return(Unit)) = (ret'.arg.i = Len(own.calls))
                /\ ret'.op = "call" =>
                      (ret'.out.kind = "NotConfigured") = ~own.f.some
                /\ (ret'.op = "function" /\ test_build) =>
                      ret'.out = IF own.f.some
                                 THEN Return(ApplyMock(own.f.v,
                                          params_to_tuple(fn, ret'.arg.p)))
                                 ELSE Return(OriginalMocked(fn, ret'.arg.p))
                /\ MockObjNext(t, fn).calls \in
                      {own.calls, <<>>} \cup
                      {Append(own.calls, params_to_tuple(fn, a)) :
                          a \in IsoArgsOf(t, fn)}

C12_FakeStep ==
    \A t \in Threads :
        (ret'.t = t /\ ret'.dbl = "fake") =>
            /\ \A u \in Threads \ {t} : fake'[u] = fake[u]
            /\ UNCHANGED <<mock, stub, held>>
            /\ ret'.op = "is_set" => ret'.out = Return(VBool(FakeObj(t).f.some))

(***************************************************************************)
(* C12.  Isolation.  An operation on the mock of one function in one       *)
(* thread changes no other instance (the mock of another function in the   *)
(* same thread, the mock of the same function in another thread, any fake  *)
(* or stub), and what it yields depends on its own instance only: is_set   *)
(* on its own implementation, assert_times on its own call log, call and   *)
(* the generated function on its own implementation; the call log only     *)
(* grows by the instance's own calls.  Likewise an operation on a thread's *)
(* fake changes no mock, no stub and no other thread's fake.  This holds   *)
(* in every interleaving of the two threads' operations.                   *)
(***************************************************************************)
C12_Isolation == [][C12_Step /\ C12_FakeStep]_vars

\* Thread t1 called fetch_user with an implementation; thread t2 has set up
\* another implementation of fetch_user and sees no call; and send_email of
\* t1, which has its own implementation, passes assert_times(0).
C12_Witness ==
    /\ ret.t = "t1" /\ ret.dbl = "mock" /\ ret.fn = "send_email"
    /\ ret.op = "assert_times" /\ ret.arg = VInt(0) /\ ret.out = Return(Unit)
    /\ MockObj("t1", "send_email").f.some
    /\ MockObj("t1", "fetch_user").f = Some("mock_error")
    /\ Len(MockObj("t1", "fetch_user").calls) = 1
    /\ MockObj("t2", "fetch_user").f = Some("user_of_id")
    /\ MockObj("t2", "fetch_user").calls = <<>>
    /\ FakeObj("t2").f.some /\ fake["t1"] = None

\* ---- C13: the condition on a step ----
C13_Step ==
    \A t \in Threads :
        /\ (ret'.t = t /\ ret'.dbl = "mock" /\ ret'.op = "function") =>
              LET fn == ret'.fn
                  args == ret'.arg.p
                  called == mock_call(mock[t][fn], fn, params_to_tuple(fn, args))
              IN  /\ (test_build /\ ConfiguredMock(t, fn)) =>
                        /\ ret'.out = called.out
                        /\ mock'[t][fn] = called.cell
                  /\ (test_build /\ ~ConfiguredMock(t, fn)) =>
                        /\ ret'.out = Return(OriginalMocked(fn, args))
                        /\ MockObjNext(t, fn) = MockObj(t, fn)
                  /\ ~test_build =>
                        /\ ret'.out = Return(OriginalMocked(fn, args))
                        /\ mock' = mock
        /\ (ret'.t = t /\ ret'.dbl = "fake" /\ ret'.op = "function") =>
              LET x == ret'.arg.i
                  g == fake_get_implementation(fake[t])
              IN  /\ (test_build /\ ConfiguredFake(t)) =>
                        /\ ret'.out = Return(VInt(ApplyFake(g.out.val.f, x)))
                        /\ fake'[t] = g.cell
                  /\ (test_build /\ ~ConfiguredFake(t)) =>
                        /\ ret'.out = Return(VInt(add_two(x)))
                        /\ FakeObjNext(t) = FakeObj(t)
                  /\ ~test_build =>
                        /\ ret'.out = Return(VInt(add_two(x)))
                        /\ fake' = fake

(***************************************************************************)
(* C13.  The generated function of a mocked or faked function.  In a test  *)
(* build it yields what the double's dispatch yields (mock: call with the  *)
(* parameter tuple, which also logs it; fake: get_implementation() applied *)
(* to the arguments) when is_set() is true, and what the original body     *)
(* yields, leaving the double as it is, when is_set() is false.  In a      *)
(* build that is no test build it yields what the original body yields     *)
(* and the thread_local of the double is not even touched.                 *)
(***************************************************************************)
C13_GeneratedCallPath == [][C13_Step]_vars

\* In a test build fetch_user(42) ran its original body, on a mock that
\* test had touched before and that holds no implementation.
C13_Witness ==
    /\ test_build
    /\ ret.dbl = "mock" /\ ret.op = "function"
    /\ ret.arg = VTup(<<42>>) /\ ret.out = Return(ResOk("User_42"))
    /\ mock[ret.t][ret.fn].some
    /\ ~ConfiguredMock(ret.t, ret.fn)
    /\ Len(MockObj(ret.t, ret.fn).calls) = 1

\* ---- C14: the condition on a step ----
C14_Step ==
    \A t \in Threads :
        (/\ ret'.t = t /\ ret'.dbl = "stub" /\ ret'.op = "process_config"
         /\ test_build) =>
            IF ConfiguredStub(t)
            THEN ret'.out = Return(VStr(StubObj(t).value.v))
            ELSE /\ ret'.out = Return(VStr(get_config))
                 /\ StubObjNext(t) = StubObj(t)

(***************************************************************************)
(* C14.  The call path of a stubbed function.  In a test build a call of   *)
(* get_config (through process_config) yields the stub's value when the    *)
(* stub is set, and otherwise runs the original body and yields its        *)
(* result: a call with no stub set up does not fail.                       *)
(***************************************************************************)
C14_StubFallsBack == [][C14_Step]_vars

\* ---- C15: the condition on a step ----
\* The arguments at the positions that are not ignored, in order.
C15_Kept(fn, args) ==
    LET keep == {i \in 1..Len(args) : i \notin IgnoreOf(fn)}
    IN  [j \in 1..Cardinality(keep) |->
            args[CHOOSE i \in keep : Cardinality({k \in keep : k < i}) = j - 1]]

\* What the log and assert_with do with a call of the generated function.
C15_Recorded(t) ==
    LET fn == ret'.fn
        log == MockObj(t, fn).calls
    IN  /\ (ret'.op = "function" /\ test_build /\ ConfiguredMock(t, fn)) =>
              MockObjNext(t, fn).calls = Append(log, C15_Kept(fn, ret'.arg.p))
        /\ ret'.op = "assert_with" =>
              (ret'.out = Return(Unit))
                  = (\E i \in 1..Len(log) : log[i] = ret'.arg.p)

\* The generated function's result is the implementation's on the tuple
\* given(args).
C15_Invoked(t, given) ==
    (/\ ret'.op = "function" /\ test_build
     /\ ConfiguredMock(t, ret'.fn)) =>
        ret'.out = Return(ApplyMock(MockObj(t, ret'.fn).f.v, given))

C15_Step ==
    \A t \in Threads :
        (ret'.t = t /\ ret'.dbl = "mock" /\ IgnoreOf(ret'.fn) # {}) =>
            /\ C15_Recorded(t)
            /\ C15_Invoked(t, C15_Kept(ret'.fn, ret'.arg.p))

C15_StepFull ==
    \A t \in Threads :
        (ret'.t = t /\ ret'.dbl = "mock" /\ IgnoreOf(ret'.fn) # {}) =>
            /\ C15_Recorded(t)
            /\ C15_Invoked(t, ret'.arg.p)

(***************************************************************************)
(* C15, as amended.  Mock with an ignore list: the configured              *)
(* implementation is invoked with the tuple that is also appended to the   *)
(* call log and that assert_with compares, the parameters of the original  *)
(* call without the ignored positions; an ignored argument reaches neither *)
(* the implementation nor the log.                                         *)
(***************************************************************************)
C15_ImplGetsKeptTuple == [][C15_Step]_vars

(***************************************************************************)
(* C15, as claimed.  Mock with an ignore list: the configured              *)
(* implementation is invoked with the full parameter tuple of the original *)
(* call, ignored positions included; only the log entry and the value      *)
(* assert_with compares omit them.                                         *)
(***************************************************************************)
C15_ImplGetsFullTuple == [][C15_StepFull]_vars

\* With |p| Ok(format!("{:?}", p)) set up, fetch_user(100, 7) and then
\* fetch_user(200, 42) were called; the second call returned Ok("42") and
\* the log holds 7 and 42.
C15_Witness ==
    /\ ret.dbl = "mock" /\ ret.op = "function" /\ ret.fn = "fetch_user_db"
    /\ ret.arg = VTup(<<200, 42>>) /\ ret.out = Return(ResOk("42"))
    /\ MockObj(ret.t, ret.fn).calls = << <<7>>, <<42>> >>

\* ---- C16: the condition on a step ----
C16_Step ==
    \A t \in Threads :
        /\ \A fn \in MockFns :
              LET mine == ret'.t = t /\ ret'.dbl = "mock" /\ ret'.fn = fn
                  old == MockObj(t, fn)
                  new == MockObjNext(t, fn)
              IN  /\ mock'[t][fn] # mock[t][fn] =>
                        /\ mine
                        /\ new.calls # old.calls =>
                              ret'.op \in {"call", "function", "clear"}
                        /\ Len(new.calls) < Len(old.calls) =>
                              ret'.op = "clear"
                        /\ new.f # old.f => ret'.op \in {"setup", "clear"}
                  /\ (mine /\ ret'.op = "assert_times") =>
                        (ret'.out = Return(Unit)) = (ret'.arg.i = Len(old.calls))
        /\ fake'[t] # fake[t] =>
              /\ ret'.t = t /\ ret'.dbl = "fake"
              /\ FakeObjNext(t).f # FakeObj(t).f =>
                    ret'.op \in {"setup", "clear"}
        /\ stub'[t] # stub[t] =>
              /\ ret'.t = t /\ ret'.dbl = "stub"
              /\ StubObjNext(t).value # StubObj(t).value =>
                    ret'.op \in {"setup", "clear"}

(***************************************************************************)
(* C16.  Nothing is reset by itself.  A thread's double is touched only by *)
(* that thread's operations on it.  Within a thread a mock's call log      *)
(* changes only by a call (directly or through the generated function) or  *)
(* by clear(), and it gets shorter only by clear(): setup, is_set,         *)
(* assert_times and assert_with leave it as it is; an implementation or    *)
(* value changes only by setup or clear().  assert_times therefore counts  *)
(* all calls since the last clear(), those of an earlier test case in the  *)
(* same thread included.                                                   *)
(***************************************************************************)
C16_NoAutomaticReset == [][C16_Step]_vars

\* A second test case in the same thread, without clear(): after the
\* calls 42 and 7, assert_times(1) panicked, 1 expected and 2 counted.
C16_Witness ==
    /\ ret.dbl = "mock" /\ ret.op = "assert_times"
    /\ ret.out = AssertionFailure(mock_mod_name(ret.fn), VInt(1), VInt(2))
    /\ ConfiguredMock(ret.t, ret.fn)
    /\ MockObj(ret.t, ret.fn).calls = << <<42>>, <<7>> >>

\* ---- C17: the condition on a step ----
C17_Step ==
    \A t \in Threads :
        (ret'.t = t /\ ret'.dbl = "mock") =>
            /\ pc[t] = "start" =>
                  /\ mock[t][TestFn] = None
                  /\ MockObj(t, TestFn) = FunctionMock_new(mock_mod_name(TestFn))
            /\ ret'.op = "function" =>
                  /\ ret'.out = Return(ApplyMock(MockObj(t, TestFn).f.v,
                                                 ret'.arg.p))
                  /\ MockObjNext(t, TestFn).calls = <<ret'.arg.p>>
            /\ ret'.op = "assert_times" =>
                  /\ ret'.out = Return(Unit)
                  /\ pc'[t] = "passed"

(***************************************************************************)
(* C17.  Test cases need no clear().  A test case that runs in a thread of *)
(* its own finds the mock freshly constructed when it first touches it,    *)
(* whatever the other test case has done by then; so of two test cases     *)
(* that each set up an implementation, call the mocked function once and   *)
(* assert_times(1), without any clear(), each gets its own                 *)
(* implementation's result from its call and passes assert_times(1), in    *)
(* whichever order and interleaving the two run.                           *)
(***************************************************************************)
C17_TestsNeedNoClear == [][C17_Step]_vars

\* Both test cases have passed, one with |id| Ok("user_" + id) and one with
\* |_| Err("Mock Error"), and each thread's log holds its own call.
C17_Witness ==
    /\ pc = [t \in Threads |-> "passed"]
    /\ MockObj("t1", TestFn).f = Some("user_of_id")
    /\ MockObj("t2", TestFn).f = Some("mock_error")
    /\ MockObj("t1", TestFn).calls = << <<42>> >>
    /\ MockObj("t2", TestFn).calls = << <<7>> >>

\* ---- C18: the condition on a step ----
C18_Step ==
    \A t \in Threads :
        (/\ ret'.t = t /\ ret'.dbl = "mock" /\ ret'.op = "assert_with"
         /\ MockObj(t, ret'.fn).calls = <<>>) =>
            ret'.out = AssertionFailure(MockObj(t, ret'.fn).name,
                                        ret'.arg, VLog(<<>>))

(***************************************************************************)
(* C18.  assert_with(q) on a mock whose call log is empty (never called,   *)
(* or cleared since) panics with AssertionFailure, for every q and with or *)
(* without an implementation set up; the failure carries the mock's name,  *)
(* q and the empty log, and is never a NotConfigured.                      *)
(***************************************************************************)
C18_AssertWithOnEmptyLog == [][C18_Step]_vars

\* assert_with(7) panicked with AssertionFailure on a mock that has an
\* implementation and an empty log.
C18_Witness ==
    /\ ret.dbl = "mock" /\ ret.op = "assert_with" /\ ret.arg = VTup(<<7>>)
    /\ ret.out.kind = "AssertionFailure"
    /\ ConfiguredMock(ret.t, ret.fn)
    /\ MockObj(ret.t, ret.fn).calls = <<>>

(***************************************************************************)
(* C19.  The name of a double is the name of the original function: every  *)
(* double a thread has touched carries it, whatever has been done to the   *)
(* double since its construction, and every NotConfigured and              *)
(* AssertionFailure carries it.                                            *)
(***************************************************************************)
C19_NameIsOriginalFn ==
    /\ \A t \in Threads :
          /\ \A fn \in MockFns :
                mock[t][fn].some =>
                    mock[t][fn].v.name = OriginalName("mock", fn)
          /\ fake[t].some => fake[t].v.name = OriginalName("fake", "add_two")
          /\ stub[t].some => stub[t].v.name = OriginalName("stub", "get_config")
    /\ ret.out.kind \in {"NotConfigured", "AssertionFailure"} =>
          ret.out.name = OriginalName(ret.dbl, ret.fn)

(***************************************************************************)
(* C20.  The stub's control interface has is_set(): the generated stub     *)
(* module offers it, and it returns true exactly when a value is stored    *)
(* (after setup and before the next clear).                                *)
(***************************************************************************)
C20_StubHasIsSet ==
    /\ "is_set" \in StubProxies
    /\ \A t \in Threads :
          (ret.t = t /\ ret.dbl = "stub" /\ ret.op = "is_set") =>
              ret.out = Return(VBool(ConfiguredStub(t)))

\* ---- C21: the condition on an expansion ----
\* The items of an expansion that are part of the build.
C21_Active(items, tb) ==
    SelectSeq(items, LAMBDA i : i.cfg = IF tb THEN "test" ELSE "not(test)")

\* A use tree of paths, names and groups only.
RECURSIVE C21_PlainUse(_)
C21_PlainUse(tree) ==
    /\ tree.kind \in {"Name", "Path", "Group"}
    /\ \A i \in 1..Len(tree.items) : C21_PlainUse(tree.items[i])

\* The function names a use tree imports, left to right.
RECURSIVE C21_ImportedNames(_)
RECURSIVE C21_ImportedOf(_)
C21_ImportedNames(tree) ==
    IF tree.kind = "Name" THEN <<tree.ident>> ELSE C21_ImportedOf(tree.items)

C21_ImportedOf(items) ==
    IF items = <<>> THEN <<>>
    ELSE C21_ImportedNames(Head(items)) \o C21_ImportedOf(Tail(items))

C21_Use ==
    LET input == expanded.input
        suffix == IF expanded.macro = "use_function_mock" THEN "_mock"
                  ELSE "_fake"
        names == C21_ImportedNames(input)
        act == C21_Active(expanded.out.items, test_build)
    IN  expanded.macro \in {"use_function_mock", "use_function_fake"} =>
            /\ C21_PlainUse(input) => ~expanded.out.panic
            /\ ~expanded.out.panic =>
                  /\ Len(act) = 1
                  /\ ~test_build => act[1].item = input
                  /\ test_build =>
                        /\ act[1].item.kind = "Use"
                        /\ act[1].item.items[2] =
                              [i \in 1..Len(names) |->
                                  <<names[i] \o suffix, names[i]>>]

C21_Inline ==
    LET input == expanded.input
        path == input.items
        act == C21_Active(expanded.out.items, test_build)
    IN  expanded.macro = "use_fake_inline" =>
            /\ (input.kind = "ExprPath" /\ path # <<>>) => ~expanded.out.panic
            /\ ~expanded.out.panic =>
                  /\ Len(act) = 1
                  /\ ~test_build => act[1].item = input
                  /\ test_build =>
                        /\ act[1].item.kind = "ExprPath"
                        /\ Len(act[1].item.items) = Len(path)
                        /\ \A i \in 1..Len(path) :
                              act[1].item.items[i] =
                                  IF i = Len(path) THEN path[i] \o "_fake"
                                  ELSE path[i]

C22_Faked == expanded.macro = "fake_function"

C22_Async == expanded.input.items # <<>>

C23_UsesOwnDouble(t, dbl) ==
    /\ running[t].some
    /\ running[t].v.dbl = dbl
    /\ running[t].v.stage = "impl"
    /\ running'[t] # running[t]
    /\ ret'.op # "function"

C23_Step ==
    \A t \in Threads :
        C23_UsesOwnDouble(t, "mock") =>
            /\ ret'.t = t
            /\ ret'.op \in {"is_set", "recurse", "setup", "clear",
                            "assert_times", "assert_with"}
            /\ ret'.out = BorrowPanic
            /\ mock' = mock
            /\ running'[t] = None

(***************************************************************************)
(* C23.  Mock re-entrancy: while the generated call runs the configured    *)
(* implementation the thread's mock is mutably borrowed, so every          *)
(* operation on the same mock from inside the implementation in the same   *)
(* thread (is_set, the mocked function itself, setup, clear, assert_times, *)
(* assert_with) ends in a borrow panic and neither reads nor changes the   *)
(* mock; an implementation cannot call the function it mocks.              *)
(***************************************************************************)
C23_MockReentryPanics == [][C23_Step]_vars

\* An implementation called the function it mocks.
C23_Witness ==
    /\ ret.dbl = "mock"
    /\ ret.op = "recurse"
    /\ ret.out = BorrowPanic
    /\ running[ret.t] = None
    /\ Len(MockObj(ret.t, TestFn).calls) = 1

\* ---- C24: the condition on a step ----
\* What an operation on the fake does when a test performs it.
C24_ActsAsUsual(t) ==
    /\ ret'.op = "is_set" =>
          /\ ret'.out = Return(VBool(ConfiguredFake(t)))
          /\ FakeObjNext(t) = FakeObj(t)
    /\ ret'.op = "setup" => FakeObjNext(t).f = Some(ret'.arg.f)
    /\ ret'.op = "clear" => ~ConfiguredFake(t)'
    /\ ret'.op = "recurse" =>
          /\ ret'.out = Return(VInt(IF ConfiguredFake(t)
                                    THEN ApplyFake(FakeObj(t).f.v, ret'.arg.i)
                                    ELSE add_two(ret'.arg.i)))
          /\ FakeObjNext(t) = FakeObj(t)

C24_Step ==
    \A t \in Threads :
        LET fr == running[t].v
        IN  /\ C23_UsesOwnDouble(t, "fake") =>
                  /\ ret'.t = t
                  /\ ret'.op \in {"is_set", "setup", "clear", "recurse"}
                  /\ ret'.out.kind = "Return"
                  /\ C24_ActsAsUsual(t)
                  /\ running'[t] = Some([fr EXCEPT !.n = @ + 1])
            \* the running call returns what the implementation it fetched
            \* computes
            /\ (/\ running[t].some
                /\ fr.dbl = "fake"
                /\ fr.stage = "impl"
                /\ running'[t] = None) =>
                  /\ ret'.op = "function"
                  /\ ret'.out = Return(VInt(ApplyFake(fr.f, fr.arg.i)))
                  /\ fake' = fake
            \* the next call goes by the fake as it is then
            /\ (/\ running[t] = None
                /\ ret'.t = t
                /\ ret'.dbl = "fake"
                /\ ret'.op \in {"check", "function"}) =>
                  /\ ret'.op = "check" <=> ConfiguredFake(t)
                  /\ ret'.op = "function" =>
                        ret'.out = Return(VInt(add_two(ret'.arg.i)))

(***************************************************************************)
(* C24.  Fake re-entrancy: the generated faked function has given back its *)
(* borrow of the fake before the implementation runs, so an implementation *)
(* may call setup, clear, is_set or the faked function itself on the same  *)
(* fake in the same thread: none of them fails on a borrow and each acts   *)
(* as usual.  A clear() or setup(g) made inside the implementation does    *)
(* not change what the running call returns; the next call goes by it.     *)
(***************************************************************************)
C24_FakeReentryWorks == [][C24_Step]_vars

\* add_two(2) returned what const_8 computes although the implementation
\* had cleared the fake while it ran.
C24_Witness ==
    /\ ret.dbl = "fake"
    /\ ret.op = "function"
    /\ ret.arg = VInt(2)
    /\ ret.out = Return(VInt(8))
    /\ running[ret.t] = None
    /\ fake[ret.t].some
    /\ ~ConfiguredFake(ret.t)

\* ---- C26: the condition on a step ----
\* Thread t is between the is_set() check, which returned true, and the
\* dispatch.
C26_Checked(t) == running[t].some /\ running[t].v.stage = "checked"

C26_Step ==
    \A t \in Threads :
        C26_Checked(t) =>
            \* the thread's own next step is the dispatch
            /\ running'[t] # running[t] =>
                  /\ ret'.t = t
                  /\ ret'.op = "dispatch"
                  /\ ret'.out.kind = "Return"
                  /\ running'[t].some
                  /\ running'[t].v.stage = "impl"
            \* what the other threads do meanwhile
            /\ running'[t] = running[t] =>
                  CellOf(t, running[t].v.dbl)' = CellOf(t, running[t].v.dbl)

(***************************************************************************)
(* C26.  In the generated mocked/faked function the is_set() check and the *)
(* dispatch that follows are two accesses to the thread's state, yet once  *)
(* the check returned true the dispatch never fails with NotConfigured,    *)
(* however the other threads' setup and clear of the double of the same    *)
(* function interleave: those act on their own thread's instance.          *)
(***************************************************************************)
C26_DispatchAfterCheck == [][C26_Step]_vars

\* Another thread cleared the double of the function while this thread was
\* between check and dispatch.
C26_Witness ==
    \E t \in Threads :
        /\ C26_Checked(t)
        /\ ret.t # t
        /\ ret.op = "clear"
        /\ ret.dbl = running[t].v.dbl

\* ---- C25: the condition on a step ----
C25_Step ==
    \A t \in Threads :
        LET c == fn_calls[t][TestFn]
            now == fn_calls'[t][TestFn]
        IN  \* a call of the function while the mock is not set
            /\ now.unset = c.unset + 1 =>
                  /\ ret'.op = "function"
                  /\ ret'.out = Return(OriginalMocked(TestFn, ret'.arg.p))
                  /\ MockObjNext(t, TestFn).calls = MockObj(t, TestFn).calls
            \* the count is that of the calls made while it was set
            /\ Len(MockObjNext(t, TestFn).calls) = now.set
            /\ (ret'.t = t /\ ret'.op = "assert_times") =>
                  (ret'.out.kind = "Return" <=> ret'.arg.i = now.set)

(***************************************************************************)
(* C25.  Through the generated mocked function a call made while the mock  *)
(* is not set runs the original body and appends nothing to the call log,  *)
(* so the count assert_times checks is the number of calls of the function *)
(* made while an implementation was configured since the last clear():     *)
(* after clear() and k calls of the function assert_times(0) succeeds.     *)
(***************************************************************************)
C25_UnsetCallsAreNotCounted == [][C25_Step]_vars

\* clear(), two calls of the function, and assert_times(0) succeeded.
C25_Witness ==
    /\ test_build
    /\ ret.op = "assert_times"
    /\ ret.arg = VInt(0)
    /\ ret.out = Return(Unit)
    /\ fn_calls[ret.t][TestFn] = [set |-> 0, unset |-> 2, cleared |-> TRUE]

\* ---- C27: the condition on a step ----
\* The loop of MockFunctionArgs::parse is running.
C27_Parsing ==
    /\ expanded.macro = "mock_function"
    /\ ~expanded.out.panic
    /\ expanded.out.status = "parsing"

\* The names of the last ignore = [..] among the arguments.
C27_LastIgnore(tokens) ==
    LET at == {i \in 1..Len(tokens) :
                  tokens[i].kind = "Ident" /\ tokens[i].ident = "ignore"}
        last == CHOOSE i \in at : \A j \in at : j <= i
        names == SelectSeq(tokens[last + 2].items,
                           LAMBDA token : token.kind = "Ident")
    IN  IF at = {} THEN <<>>
        ELSE [k \in 1..Len(names) |-> names[k].ident]

C27_Step ==
    LET st == expanded.out
        now == expanded'.out
        key == Head(st.rest)
    IN  \* an iteration consumes a token or returns an error
        /\ (C27_Parsing /\ expanded' # expanded) =>
              /\ expanded'.input = expanded.input
              /\ now.panic \/ Len(now.rest) < Len(st.rest)
              \* a bare key other than ignore
              /\ (key.kind = "Ident" /\ key.ident # "ignore") =>
                    /\ ~now.panic
                    /\ now.ignore = st.ignore
                    /\ now.rest \in {SubSeq(st.rest, 2, Len(st.rest)),
                                     SubSeq(st.rest, 3, Len(st.rest))}
        \* what parse returns
        /\ (/\ expanded'.macro = "mock_function"
            /\ ~now.panic
            /\ now.status = "ok") =>
              /\ now.rest = <<>>
              /\ now.ignore = C27_LastIgnore(expanded'.input)
              /\ expanded'.input = <<>> => now.ignore = <<>>

(***************************************************************************)
(* C27.  Parsing the arguments of the mock_function attribute terminates   *)
(* on every token sequence: each iteration of the loop consumes at least   *)
(* one token or returns an error, so the loop ends.  An empty argument     *)
(* list gives an empty ignore list, a later ignore = [..] replaces an      *)
(* earlier one and is not merged with it, and a bare key other than        *)
(* ignore is accepted and leaves the ignore list as it is.                 *)
(***************************************************************************)
C27_ParseTerminates == [][C27_Step]_vars /\ <>[](~C27_Parsing)

\* ignore = [db], ignore = [id, db] was parsed: the list is the second one.
C27_Witness ==
    /\ expanded.macro = "mock_function"
    /\ ~expanded.out.panic
    /\ expanded.out.status = "ok"
    /\ Len(expanded.input) = 7
    /\ expanded.input[3].items # expanded.input[7].items
    /\ expanded.out.ignore = <<"id", "db">>

====
